---- MODULE Spec2Model ----
(***************************************************************************)
(* Settings reconciliation and persistence of the asset-log plugin         *)
(* backend (pkg/plugin): NewApp, the app_settings table, the merge and     *)
(* comparison helpers of app_settings.go and parseConfig of config.go.     *)
(*                                                                         *)
(* Byte strings are sequences of tokens: WS (one white-space byte), LB and *)
(* RB (the braces of a JSON object) and member records [key, val] (one     *)
(* "key":value pair; commas are implicit).  A member value is [str |-> s]  *)
(* or [num |-> n].  Timestamps are instants 1..MaxTime, 0 is the zero      *)
(* time.Time.  String maps are functions on a subset of the key names;     *)
(* nil and the empty map are both the empty function.                      *)
(*                                                                         *)
(* app_settings is the table, last the instantiation the host made last    *)
(* when it instantiates one at a time, calls the position of each tenant's *)
(* instantiation when tenants are instantiated concurrently, reply the      *)
(* outcome of the last resource request or health check, env the process  *)
(* environment, assets the asset rows, attachment rows and stored objects.  *)
(***************************************************************************)
EXTENDS Integers, Sequences, FiniteSets, TLC

VARIABLES app_settings, last, calls, reply, env, assets

vars == <<app_settings, last, calls, reply, env, assets>>

\* Largest timestamp the host or the wall clock supplies.
MaxTime == 3

\* Largest maxUploadSizeMb of the dense range of configured sizes.
MaxUploadInput == 5122

WS == [tok |-> "ws"]
LB == [tok |-> "{"]
RB == [tok |-> "}"]

Member(k, v) == [key |-> k, val |-> v]
Str(s) == [str |-> s]
Num(n) == [num |-> n]

IsMember(tok) == "key" \in DOMAIN tok

EmptyMap == [k \in {} |-> ""]

\* len(m) of a Go map
MapLen(m) == Cardinality(DOMAIN m)

\* m[k] of a Go map: the zero value "" when the key is absent
MapGet(m, k) == IF k \in DOMAIN m THEN m[k] ELSE ""

\* Strings the model uses that consist of white space only.
BlankStrings == {"", " "}

\* strings.TrimSpace on the strings of the model (none is padded)
TrimSpaceStr(s) == IF s \in BlankStrings THEN "" ELSE s

RECURSIVE TrimLeft(_)
TrimLeft(b) == IF Len(b) > 0 /\ Head(b) = WS THEN TrimLeft(Tail(b)) ELSE b

RECURSIVE TrimRight(_)
TrimRight(b) ==
    IF Len(b) > 0 /\ b[Len(b)] = WS THEN TrimRight(SubSeq(b, 1, Len(b) - 1)) ELSE b

\* bytes.TrimSpace
TrimSpace(b) == TrimRight(TrimLeft(b))

NotWS(tok) == tok # WS

\* Key names in byte order, the order json.Marshal writes object members in.
KeyOrder ==
    <<"apiKey", "apiUrl", "bucketName", "gcsServiceAccount", "maxUploadSizeMb", "objectPrefix">>

\* json.Unmarshal into interface{}: white space between tokens is skipped;
\* the text must be one object; a repeated key keeps its last value.
JSONValid(b) ==
    LET t == SelectSeq(b, NotWS)
    IN  /\ Len(t) >= 2
        /\ t[1] = LB
        /\ t[Len(t)] = RB
        /\ \A i \in 2..(Len(t) - 1) : IsMember(t[i])

JSONValue(b) ==
    LET t == SelectSeq(b, NotWS)
        idx == 2..(Len(t) - 1)
        keys == {t[i].key : i \in idx}
        lastIdx(k) == CHOOSE i \in idx : t[i].key = k /\ \A j \in idx : t[j].key = k => j <= i
    IN  [k \in keys |-> t[lastIdx(k)].val]

RECURSIVE MarshalMembers(_, _)
MarshalMembers(v, i) ==
    IF i > Len(KeyOrder) THEN <<>>
    ELSE (IF KeyOrder[i] \in DOMAIN v
             THEN <<Member(KeyOrder[i], v[KeyOrder[i]])>>
             ELSE <<>>) \o MarshalMembers(v, i + 1)

\* json.Marshal of a decoded object: sorted keys, no white space
JSONMarshal(v) == <<LB>> \o MarshalMembers(v, 1) \o <<RB>>

canonicalizeJSON(data) ==
    LET trimmed == TrimSpace(data)
    IN  IF Len(trimmed) = 0 THEN <<>>
        ELSE IF ~JSONValid(trimmed) THEN trimmed
        ELSE JSONMarshal(JSONValue(trimmed))

\* The number literal -0: json.Unmarshal decodes it to the float64 negative
\* zero, which json.Marshal writes as -0 again.
NegZero == [num |-> 0, neg |-> TRUE]

\* reflect.DeepEqual of two decoded objects: the same keys, equal strings,
\* numbers equal as float64 (the two zeros are equal)
DeepEqual(va, vb) ==
    /\ DOMAIN va = DOMAIN vb
    /\ \A k \in DOMAIN va :
          IF "num" \in DOMAIN va[k] /\ "num" \in DOMAIN vb[k]
          THEN va[k].num = vb[k].num
          ELSE va[k] = vb[k]

\* jsonEqual comparing the trimmed bytes without parsing them.
jsonEqual_TrimmedBytes(a, b) == TrimSpace(a) = TrimSpace(b)

jsonEqual(a, b) ==
    IF Len(TrimSpace(a)) = 0 /\ Len(TrimSpace(b)) = 0 THEN TRUE
    ELSE IF ~JSONValid(a) THEN TrimSpace(a) = TrimSpace(b)
    ELSE IF ~JSONValid(b) THEN FALSE
    ELSE DeepEqual(JSONValue(a), JSONValue(b))

mapsEqual(a, b) ==
    IF MapLen(a) = 0 /\ MapLen(b) = 0 THEN TRUE
    ELSE IF MapLen(a) # MapLen(b) THEN FALSE
    ELSE \A k \in DOMAIN a : MapGet(b, k) = a[k]

copyStringMap(src) == IF MapLen(src) = 0 THEN EmptyMap ELSE src

\* A nil *persistedAppSettings
Nil == [nil |-> TRUE]

\* sql.NullString
NullString(valid, str) == [Valid |-> valid, String |-> str]

SQLNull == NullString(FALSE, <<>>)

\* time.Time.Format(time.RFC3339Nano): one token carrying the instant
FormatTime(t) == <<[ts |-> t]>>

\* time.Parse(time.RFC3339Nano, s), falling back to time.RFC3339
TimeValid(s) == Len(s) = 1 /\ "ts" \in DOMAIN s[1]

ParseTime(s) == s[1].ts

\* json.Unmarshal into map[string]string
StringMapValid(b) ==
    /\ JSONValid(b)
    /\ \A k \in DOMAIN JSONValue(b) : "str" \in DOMAIN JSONValue(b)[k]

StringMapValue(b) == [k \in DOMAIN JSONValue(b) |-> JSONValue(b)[k].str]

\* encodeStringMap leaving out the entries whose value is empty.
encodeStringMap_OmitsEmpty(values) ==
    IF {k \in DOMAIN values : values[k] # ""} = {} THEN <<>>
    ELSE JSONMarshal([k \in {j \in DOMAIN values : values[j] # ""} |-> Str(values[k])])

encodeStringMap(values) ==
    IF MapLen(values) = 0 THEN <<>>
    ELSE JSONMarshal([k \in DOMAIN values |-> Str(values[k])])

nullableStringFromBytes(data) ==
    IF Len(TrimSpace(data)) = 0 THEN SQLNull ELSE NullString(TRUE, data)

\* The rows SELECT ... FROM app_settings WHERE org_id = ? yields
RowsOf(table, orgID) == {r \in table : r.org_id = orgID}

\* The record loadPersistedAppSettings builds from one scanned row
ScanRow(row) ==
    [JSONData |-> row.json_data,
     SecureJSONData |->
        IF row.secure_json_data.Valid /\ Len(TrimSpace(row.secure_json_data.String)) # 0
        THEN StringMapValue(row.secure_json_data.String) ELSE EmptyMap,
     UpdatedAt |->
        IF Len(TrimSpace(row.updated_at)) # 0 THEN ParseTime(TrimSpace(row.updated_at)) ELSE 0,
     ProvisionedJSONData |->
        IF row.provisioned_json_data.Valid
           /\ Len(TrimSpace(row.provisioned_json_data.String)) # 0
        THEN row.provisioned_json_data.String ELSE <<>>,
     ProvisionedSecureJSONData |->
        IF row.provisioned_secure_json_data.Valid
           /\ Len(TrimSpace(row.provisioned_secure_json_data.String)) # 0
        THEN StringMapValue(row.provisioned_secure_json_data.String) ELSE EmptyMap,
     ProvisionedUpdatedAt |->
        IF Len(TrimSpace(row.provisioned_updated_at.String)) # 0
        THEN ParseTime(TrimSpace(row.provisioned_updated_at.String)) ELSE 0]

\* The decode failures of loadPersistedAppSettings on one scanned row
ScanFails(row) ==
    \/ Len(TrimSpace(row.updated_at)) # 0 /\ ~TimeValid(TrimSpace(row.updated_at))
    \/ /\ row.secure_json_data.Valid
       /\ Len(TrimSpace(row.secure_json_data.String)) # 0
       /\ ~StringMapValid(row.secure_json_data.String)
    \/ /\ row.provisioned_secure_json_data.Valid
       /\ Len(TrimSpace(row.provisioned_secure_json_data.String)) # 0
       /\ ~StringMapValid(row.provisioned_secure_json_data.String)
    \/ /\ Len(TrimSpace(row.provisioned_updated_at.String)) # 0
       /\ ~TimeValid(TrimSpace(row.provisioned_updated_at.String))

\* loadPersistedAppSettings: [err, settings]; no row is (nil, nil)
loadPersistedAppSettings(table, orgID) ==
    IF RowsOf(table, orgID) = {} THEN [err |-> FALSE, settings |-> Nil]
    ELSE LET row == CHOOSE r \in RowsOf(table, orgID) : TRUE
         IN  IF ScanFails(row) THEN [err |-> TRUE, settings |-> Nil]
             ELSE [err |-> FALSE, settings |-> ScanRow(row)]

\* backend.AppInstanceSettings (APIVersion plays no part in any decision)
Settings(json, secure, updated) ==
    [JSONData |-> json, DecryptedSecureJSONData |-> secure, Updated |-> updated]

\* SaveRow taking the provisioned baseline from the settings being saved on
\* every write, as if no existing record were passed.
SaveRow_ReseedsBaseline(orgID, settings, existing, now) ==
    LET updated == IF settings.Updated = 0 THEN now ELSE settings.Updated
        canonicalJSON == canonicalizeJSON(settings.JSONData)
        secureJSONStr == encodeStringMap(settings.DecryptedSecureJSONData)
        provisionedSecureStr == encodeStringMap(settings.DecryptedSecureJSONData)
    IN  [org_id |-> orgID,
         json_data |-> canonicalJSON,
         secure_json_data |->
            IF secureJSONStr # <<>> THEN NullString(TRUE, secureJSONStr) ELSE SQLNull,
         updated_at |-> FormatTime(updated),
         provisioned_json_data |-> nullableStringFromBytes(canonicalJSON),
         provisioned_secure_json_data |->
            IF provisionedSecureStr # <<>> THEN NullString(TRUE, provisionedSecureStr)
            ELSE SQLNull,
         provisioned_updated_at |-> NullString(TRUE, FormatTime(updated))]

\* SaveRow storing the JSON bytes as received instead of their canonical form.
SaveRow_RawJSON(orgID, settings, existing, now) ==
    LET updated == IF settings.Updated = 0 THEN now ELSE settings.Updated
        secureJSONStr == encodeStringMap(settings.DecryptedSecureJSONData)
        kept == [json |-> IF existing # Nil THEN existing.ProvisionedJSONData ELSE <<>>,
                 secure |-> IF existing # Nil
                            THEN copyStringMap(existing.ProvisionedSecureJSONData)
                            ELSE EmptyMap,
                 updated |-> IF existing # Nil THEN existing.ProvisionedUpdatedAt ELSE 0]
        provisioned ==
            IF Len(kept.json) = 0 /\ MapLen(kept.secure) = 0
            THEN IF existing # Nil
                 THEN [json |-> existing.JSONData,
                       secure |-> copyStringMap(existing.SecureJSONData),
                       updated |-> existing.UpdatedAt]
                 ELSE [json |-> canonicalizeJSON(settings.JSONData),
                       secure |-> copyStringMap(settings.DecryptedSecureJSONData),
                       updated |-> updated]
            ELSE kept
        provisionedSecureStr == encodeStringMap(provisioned.secure)
    IN  [org_id |-> orgID,
         json_data |-> settings.JSONData,
         secure_json_data |->
            IF secureJSONStr # <<>> THEN NullString(TRUE, secureJSONStr) ELSE SQLNull,
         updated_at |-> FormatTime(updated),
         provisioned_json_data |-> nullableStringFromBytes(provisioned.json),
         provisioned_secure_json_data |->
            IF provisionedSecureStr # <<>> THEN NullString(TRUE, provisionedSecureStr)
            ELSE SQLNull,
         provisioned_updated_at |->
            IF provisioned.updated # 0 THEN NullString(TRUE, FormatTime(provisioned.updated))
            ELSE SQLNull]

\* SaveRow filling a missing baseline from the settings being saved even
\* when a record exists.
SaveRow_BackfillsFromPayload(orgID, settings, existing, now) ==
    LET updated == IF settings.Updated = 0 THEN now ELSE settings.Updated
        canonicalJSON == canonicalizeJSON(settings.JSONData)
        secureJSONStr == encodeStringMap(settings.DecryptedSecureJSONData)
        kept == [json |-> IF existing # Nil THEN existing.ProvisionedJSONData ELSE <<>>,
                 secure |-> IF existing # Nil
                            THEN copyStringMap(existing.ProvisionedSecureJSONData)
                            ELSE EmptyMap,
                 updated |-> IF existing # Nil THEN existing.ProvisionedUpdatedAt ELSE 0]
        provisioned ==
            IF Len(kept.json) = 0 /\ MapLen(kept.secure) = 0
            THEN [json |-> canonicalJSON,
                  secure |-> copyStringMap(settings.DecryptedSecureJSONData),
                  updated |-> updated]
            ELSE kept
        provisionedSecureStr == encodeStringMap(provisioned.secure)
    IN  [org_id |-> orgID,
         json_data |-> canonicalJSON,
         secure_json_data |->
            IF secureJSONStr # <<>> THEN NullString(TRUE, secureJSONStr) ELSE SQLNull,
         updated_at |-> FormatTime(updated),
         provisioned_json_data |-> nullableStringFromBytes(provisioned.json),
         provisioned_secure_json_data |->
            IF provisionedSecureStr # <<>> THEN NullString(TRUE, provisionedSecureStr)
            ELSE SQLNull,
         provisioned_updated_at |->
            IF provisioned.updated # 0 THEN NullString(TRUE, FormatTime(provisioned.updated))
            ELSE SQLNull]

\* The row savePersistedAppSettings hands to the upsert; now is time.Now().UTC()
SaveRow(orgID, settings, existing, now) ==
    LET updated == IF settings.Updated = 0 THEN now ELSE settings.Updated
        canonicalJSON == canonicalizeJSON(settings.JSONData)
        secureJSONStr == encodeStringMap(settings.DecryptedSecureJSONData)
        kept == [json |-> IF existing # Nil THEN existing.ProvisionedJSONData ELSE <<>>,
                 secure |-> IF existing # Nil
                            THEN copyStringMap(existing.ProvisionedSecureJSONData)
                            ELSE EmptyMap,
                 updated |-> IF existing # Nil THEN existing.ProvisionedUpdatedAt ELSE 0]
        provisioned ==
            IF Len(kept.json) = 0 /\ MapLen(kept.secure) = 0
            THEN IF existing # Nil
                 THEN [json |-> existing.JSONData,
                       secure |-> copyStringMap(existing.SecureJSONData),
                       updated |-> existing.UpdatedAt]
                 ELSE [json |-> canonicalJSON,
                       secure |-> copyStringMap(settings.DecryptedSecureJSONData),
                       updated |-> updated]
            ELSE kept
        provisionedSecureStr == encodeStringMap(provisioned.secure)
    IN  [org_id |-> orgID,
         json_data |-> canonicalJSON,
         secure_json_data |->
            IF secureJSONStr # <<>> THEN NullString(TRUE, secureJSONStr) ELSE SQLNull,
         updated_at |-> FormatTime(updated),
         provisioned_json_data |-> nullableStringFromBytes(provisioned.json),
         provisioned_secure_json_data |->
            IF provisionedSecureStr # <<>> THEN NullString(TRUE, provisionedSecureStr)
            ELSE SQLNull,
         provisioned_updated_at |->
            IF provisioned.updated # 0 THEN NullString(TRUE, FormatTime(provisioned.updated))
            ELSE SQLNull]

\* INSERT ... ON CONFLICT(org_id) DO UPDATE SET every column = excluded
\* The statement as a plain INSERT: an existing row of the tenant stays.
Upsert_Inserts(table, row) == table \cup {row}

\* The statement replacing the table's content instead of the tenant's row.
Upsert_ReplacesTable(table, row) == {row}

Upsert(table, row) == {r \in table : r.org_id # row.org_id} \cup {row}

\* savePersistedAppSettings: the table after the statement
savePersistedAppSettings(table, orgID, settings, existing, now) ==
    Upsert(table, SaveRow(orgID, settings, existing, now))

\* MergeSecrets letting the persisted value win for every key both maps hold.
MergeSecrets_PersistedWins(mine, persisted) ==
    IF MapLen(mine) = 0 THEN copyStringMap(persisted.SecureJSONData)
    ELSE IF /\ MapLen(persisted.ProvisionedSecureJSONData) > 0
            /\ mapsEqual(mine, persisted.ProvisionedSecureJSONData)
            /\ ~mapsEqual(persisted.SecureJSONData, persisted.ProvisionedSecureJSONData)
         THEN copyStringMap(persisted.SecureJSONData)
    ELSE [k \in DOMAIN mine \cup DOMAIN persisted.SecureJSONData |->
            IF k \in DOMAIN persisted.SecureJSONData
            THEN persisted.SecureJSONData[k] ELSE mine[k]]

\* MergeSecrets filling in only the keys the payload lacks: a key the payload
\* carries with an empty value stays empty.
MergeSecrets_KeepsEmptyIncoming(mine, persisted) ==
    IF MapLen(mine) = 0 THEN copyStringMap(persisted.SecureJSONData)
    ELSE IF /\ MapLen(persisted.ProvisionedSecureJSONData) > 0
            /\ mapsEqual(mine, persisted.ProvisionedSecureJSONData)
            /\ ~mapsEqual(persisted.SecureJSONData, persisted.ProvisionedSecureJSONData)
         THEN copyStringMap(persisted.SecureJSONData)
    ELSE [k \in DOMAIN mine \cup DOMAIN persisted.SecureJSONData |->
            IF k \in DOMAIN mine THEN mine[k] ELSE persisted.SecureJSONData[k]]

\* The secret map of mergeAppInstanceSettings when persisted holds secrets
MergeSecrets(mine, persisted) ==
    IF MapLen(mine) = 0 THEN copyStringMap(persisted.SecureJSONData)
    ELSE IF /\ MapLen(persisted.ProvisionedSecureJSONData) > 0
            /\ mapsEqual(mine, persisted.ProvisionedSecureJSONData)
            /\ ~mapsEqual(persisted.SecureJSONData, persisted.ProvisionedSecureJSONData)
         THEN copyStringMap(persisted.SecureJSONData)
    ELSE [k \in DOMAIN mine \cup DOMAIN persisted.SecureJSONData |->
            IF k \in DOMAIN persisted.SecureJSONData
               /\ (k \notin DOMAIN mine \/ TrimSpaceStr(mine[k]) = "")
            THEN persisted.SecureJSONData[k]
            ELSE mine[k]]

\* mergeAppInstanceSettings keeping the persisted JSON whenever there is one.
mergeAppInstanceSettings_PersistedJSONWins(settings, persisted) ==
    IF persisted = Nil
    THEN Settings(settings.JSONData, copyStringMap(settings.DecryptedSecureJSONData),
                  settings.Updated)
    ELSE Settings(
            IF Len(persisted.JSONData) > 0 THEN persisted.JSONData ELSE settings.JSONData,
            IF MapLen(persisted.SecureJSONData) > 0
            THEN MergeSecrets(copyStringMap(settings.DecryptedSecureJSONData), persisted)
            ELSE copyStringMap(settings.DecryptedSecureJSONData),
            settings.Updated)

\* mergeAppInstanceSettings taking the payload's secret map whenever it has
\* entries, without filling in the persisted ones.
mergeAppInstanceSettings_NoSecretFill(settings, persisted) ==
    IF persisted = Nil
    THEN Settings(settings.JSONData, copyStringMap(settings.DecryptedSecureJSONData),
                  settings.Updated)
    ELSE Settings(
            IF Len(settings.JSONData) = 0 /\ Len(persisted.JSONData) > 0
            THEN persisted.JSONData ELSE settings.JSONData,
            IF MapLen(persisted.SecureJSONData) > 0
               /\ MapLen(settings.DecryptedSecureJSONData) = 0
            THEN copyStringMap(persisted.SecureJSONData)
            ELSE copyStringMap(settings.DecryptedSecureJSONData),
            settings.Updated)

mergeAppInstanceSettings(settings, persisted) ==
    IF persisted = Nil
    THEN Settings(settings.JSONData, copyStringMap(settings.DecryptedSecureJSONData),
                  settings.Updated)
    ELSE Settings(
            IF Len(settings.JSONData) = 0 /\ Len(persisted.JSONData) > 0
            THEN persisted.JSONData ELSE settings.JSONData,
            IF MapLen(persisted.SecureJSONData) > 0
            THEN MergeSecrets(copyStringMap(settings.DecryptedSecureJSONData), persisted)
            ELSE copyStringMap(settings.DecryptedSecureJSONData),
            settings.Updated)

\* persistedToAppInstanceSettings restoring the JSON but not the secrets.
persistedToAppInstanceSettings_DropsSecrets(p) ==
    IF p = Nil THEN Settings(<<>>, EmptyMap, 0)
    ELSE Settings(p.JSONData, EmptyMap, p.UpdatedAt)

\* persistedToAppInstanceSettings restoring the secrets but not the JSON.
persistedToAppInstanceSettings_DropsJSON(p) ==
    IF p = Nil THEN Settings(<<>>, EmptyMap, 0)
    ELSE Settings(<<>>, copyStringMap(p.SecureJSONData), p.UpdatedAt)

persistedToAppInstanceSettings(p) ==
    IF p = Nil THEN Settings(<<>>, EmptyMap, 0)
    ELSE Settings(p.JSONData, copyStringMap(p.SecureJSONData), p.UpdatedAt)

hasNonEmptySettings(settings) ==
    IF Len(settings.JSONData) > 0 THEN TRUE
    ELSE MapLen(settings.DecryptedSecureJSONData) > 0

\* isProvisionedFallback comparing the payload with the live record instead
\* of the provisioned baseline.
isProvisionedFallback_AgainstLive(settings, persisted) ==
    IF persisted = Nil THEN FALSE
    ELSE IF Len(persisted.ProvisionedJSONData) = 0
            /\ MapLen(persisted.ProvisionedSecureJSONData) = 0 THEN FALSE
    ELSE IF ~jsonEqual(settings.JSONData, persisted.JSONData) THEN FALSE
    ELSE IF ~mapsEqual(settings.DecryptedSecureJSONData, persisted.SecureJSONData)
         THEN FALSE
    ELSE TRUE

isProvisionedFallback(settings, persisted) ==
    IF persisted = Nil THEN FALSE
    ELSE IF Len(persisted.ProvisionedJSONData) = 0
            /\ MapLen(persisted.ProvisionedSecureJSONData) = 0 THEN FALSE
    ELSE IF ~jsonEqual(settings.JSONData, persisted.ProvisionedJSONData) THEN FALSE
    ELSE IF ~mapsEqual(settings.DecryptedSecureJSONData, persisted.ProvisionedSecureJSONData)
         THEN FALSE
    ELSE TRUE

\* shouldPersistUpdate rejecting only payloads older than the stored record:
\* a payload with the stored timestamp is accepted.
shouldPersistUpdate_AcceptsEqual(settings, persisted) ==
    IF persisted = Nil THEN hasNonEmptySettings(settings)
    ELSE IF ~hasNonEmptySettings(settings) THEN FALSE
    ELSE IF isProvisionedFallback(settings, persisted) THEN FALSE
    ELSE IF settings.Updated = 0 THEN FALSE
    ELSE IF persisted.UpdatedAt = 0 THEN TRUE
    ELSE IF settings.Updated < persisted.UpdatedAt THEN FALSE
    ELSE IF /\ jsonEqual(settings.JSONData, persisted.JSONData)
            /\ mapsEqual(settings.DecryptedSecureJSONData, persisted.SecureJSONData)
         THEN FALSE
    ELSE TRUE

\* shouldPersistUpdate without the comparison of the two timestamps.
shouldPersistUpdate_NoTimestampTest(settings, persisted) ==
    IF persisted = Nil THEN hasNonEmptySettings(settings)
    ELSE IF ~hasNonEmptySettings(settings) THEN FALSE
    ELSE IF isProvisionedFallback(settings, persisted) THEN FALSE
    ELSE IF settings.Updated = 0 THEN FALSE
    ELSE IF /\ jsonEqual(settings.JSONData, persisted.JSONData)
            /\ mapsEqual(settings.DecryptedSecureJSONData, persisted.SecureJSONData)
         THEN FALSE
    ELSE TRUE

\* shouldPersistUpdate without the test for a replay of the baseline.
shouldPersistUpdate_NoFallbackTest(settings, persisted) ==
    IF persisted = Nil THEN hasNonEmptySettings(settings)
    ELSE IF ~hasNonEmptySettings(settings) THEN FALSE
    ELSE IF settings.Updated = 0 THEN FALSE
    ELSE IF persisted.UpdatedAt = 0 THEN TRUE
    ELSE IF ~(settings.Updated > persisted.UpdatedAt) THEN FALSE
    ELSE IF /\ jsonEqual(settings.JSONData, persisted.JSONData)
            /\ mapsEqual(settings.DecryptedSecureJSONData, persisted.SecureJSONData)
         THEN FALSE
    ELSE TRUE

\* shouldPersistUpdate accepting a newer payload whatever its content.
shouldPersistUpdate_IgnoresContent(settings, persisted) ==
    IF persisted = Nil THEN hasNonEmptySettings(settings)
    ELSE IF ~hasNonEmptySettings(settings) THEN FALSE
    ELSE IF isProvisionedFallback(settings, persisted) THEN FALSE
    ELSE IF settings.Updated = 0 THEN FALSE
    ELSE IF persisted.UpdatedAt = 0 THEN TRUE
    ELSE settings.Updated > persisted.UpdatedAt

shouldPersistUpdate(settings, persisted) ==
    IF persisted = Nil THEN hasNonEmptySettings(settings)
    ELSE IF ~hasNonEmptySettings(settings) THEN FALSE
    ELSE IF isProvisionedFallback(settings, persisted) THEN FALSE
    ELSE IF settings.Updated = 0 THEN FALSE
    ELSE IF persisted.UpdatedAt = 0 THEN TRUE
    ELSE IF ~(settings.Updated > persisted.UpdatedAt) THEN FALSE
    ELSE IF /\ jsonEqual(settings.JSONData, persisted.JSONData)
            /\ mapsEqual(settings.DecryptedSecureJSONData, persisted.SecureJSONData)
         THEN FALSE
    ELSE TRUE

defaultMaxUploadSizeMB == 25
maxAllowedUploadSizeMB == 5120
bytesInMegabyte == 1048576

\* int64 values above the range of the checker's integers are held as four
\* digits to the base LimbBase, least significant first.
LimbBase == 32768

\* The digits of an int64 n with 0 <= n < LimbBase^2 * 2
Int64Limbs(n) == <<n % LimbBase, (n \div LimbBase) % LimbBase,
                   n \div (LimbBase * LimbBase), 0>>

\* The int64 product a * b of 0 <= a, b < LimbBase^2, by long multiplication
Mul64(a, b) ==
    LET a0 == a % LimbBase
        a1 == a \div LimbBase
        b0 == b % LimbBase
        b1 == b \div LimbBase
        t0 == a0 * b0
        t1 == a0 * b1 + (t0 \div LimbBase)
        t2 == a1 * b0 + (t1 % LimbBase)
        t3 == a1 * b1 + (t1 \div LimbBase) + (t2 \div LimbBase)
    IN  <<t0 % LimbBase, t2 % LimbBase, t3 % LimbBase, t3 \div LimbBase>>

\* The string of a decoded member, "" when the member is absent
RawString(raw, k) == IF k \in DOMAIN raw THEN raw[k].str ELSE ""

\* The int64 of a decoded member, 0 when the member is absent
RawInt(raw, k) == IF k \in DOMAIN raw THEN raw[k].num ELSE 0

\* json.Unmarshal(settings.JSONData, &raw) fails: bad syntax or a member of the wrong type
RawDecodeFails(data) ==
    \/ ~JSONValid(data)
    \/ \E k \in DOMAIN JSONValue(data) :
          \/ k \in {"apiUrl", "bucketName", "objectPrefix"} /\ "str" \notin DOMAIN JSONValue(data)[k]
          \/ k = "maxUploadSizeMb" /\ "num" \notin DOMAIN JSONValue(data)[k]

\* parseConfig returning the configured size without the upper limit.
parseConfig_NoClamp(settings) ==
    LET hasJSON == Len(settings.JSONData) > 0
        fails == hasJSON /\ RawDecodeFails(settings.JSONData)
        raw == IF hasJSON /\ ~fails THEN JSONValue(settings.JSONData) ELSE EmptyMap
        m == RawInt(raw, "maxUploadSizeMb")
        sizeMB == IF m > 0 THEN m ELSE defaultMaxUploadSizeMB
        secure == settings.DecryptedSecureJSONData
    IN  [err |-> fails,
         cfg |-> [APIURL |-> TrimSpaceStr(RawString(raw, "apiUrl")),
                  APIKey |-> MapGet(secure, "apiKey"),
                  Bucket |-> TrimSpaceStr(RawString(raw, "bucketName")),
                  Prefix |-> TrimSpaceStr(RawString(raw, "objectPrefix")),
                  MaxUploadSizeMB |-> sizeMB,
                  MaxUploadSizeBytes |-> Mul64(sizeMB, bytesInMegabyte),
                  ServiceAccountJSON |-> MapGet(secure, "gcsServiceAccount")]]

\* parseConfig ignoring the error of json.Unmarshal.
parseConfig_IgnoresDecodeError(settings) ==
    LET secure == settings.DecryptedSecureJSONData
    IN  [err |-> FALSE,
         cfg |-> [APIURL |-> "", APIKey |-> MapGet(secure, "apiKey"),
                  Bucket |-> "", Prefix |-> "",
                  MaxUploadSizeMB |-> defaultMaxUploadSizeMB,
                  MaxUploadSizeBytes |-> Mul64(defaultMaxUploadSizeMB, bytesInMegabyte),
                  ServiceAccountJSON |-> MapGet(secure, "gcsServiceAccount")]]

\* parseConfig taking a document it cannot decode for an empty one.
parseConfig_SkipsUndecodable(settings) ==
    LET hasJSON == Len(settings.JSONData) > 0
        fails == hasJSON /\ RawDecodeFails(settings.JSONData)
        raw == IF hasJSON /\ ~fails THEN JSONValue(settings.JSONData) ELSE EmptyMap
        m == RawInt(raw, "maxUploadSizeMb")
        sizeMB == IF m > 0
                  THEN (IF m > maxAllowedUploadSizeMB THEN maxAllowedUploadSizeMB ELSE m)
                  ELSE defaultMaxUploadSizeMB
        secure == settings.DecryptedSecureJSONData
    IN  [err |-> FALSE,
         cfg |-> [APIURL |-> TrimSpaceStr(RawString(raw, "apiUrl")),
                  APIKey |-> MapGet(secure, "apiKey"),
                  Bucket |-> TrimSpaceStr(RawString(raw, "bucketName")),
                  Prefix |-> TrimSpaceStr(RawString(raw, "objectPrefix")),
                  MaxUploadSizeMB |-> sizeMB,
                  MaxUploadSizeBytes |-> Mul64(sizeMB, bytesInMegabyte),
                  ServiceAccountJSON |-> MapGet(secure, "gcsServiceAccount")]]

\* parseConfig: [err, cfg]
parseConfig(settings) ==
    LET hasJSON == Len(settings.JSONData) > 0
        fails == hasJSON /\ RawDecodeFails(settings.JSONData)
        raw == IF hasJSON /\ ~fails THEN JSONValue(settings.JSONData) ELSE EmptyMap
        m == RawInt(raw, "maxUploadSizeMb")
        sizeMB == IF m > 0
                  THEN (IF m > maxAllowedUploadSizeMB THEN maxAllowedUploadSizeMB ELSE m)
                  ELSE defaultMaxUploadSizeMB
        secure == settings.DecryptedSecureJSONData
    IN  [err |-> fails,
         cfg |-> [APIURL |-> TrimSpaceStr(RawString(raw, "apiUrl")),
                  APIKey |-> MapGet(secure, "apiKey"),
                  Bucket |-> TrimSpaceStr(RawString(raw, "bucketName")),
                  Prefix |-> TrimSpaceStr(RawString(raw, "objectPrefix")),
                  MaxUploadSizeMB |-> sizeMB,
                  MaxUploadSizeBytes |-> Mul64(sizeMB, bytesInMegabyte),
                  ServiceAccountJSON |-> MapGet(secure, "gcsServiceAccount")]]

\* localStorageOverrideEnabled: ASSETLOG_FORCE_LOCAL_STORAGE, trimmed and in
\* lower case, is one of the accepted words
localStorageOverrideEnabled(e) ==
    e.ASSETLOG_FORCE_LOCAL_STORAGE \in {"1", "true", "yes", "y", "on"}

\* StorageConfig.IsFullyConfigured
IsFullyConfigured(s, e) ==
    IF localStorageOverrideEnabled(e) THEN TRUE
    ELSE s.Bucket # "" /\ s.ServiceAccountJSON # ""

\* An error value carrying its message
Error(msg) == [msg |-> msg]

\* json.Unmarshal(cfg.ServiceAccountJSON, &creds) on the credential texts in
\* use: g1 and g2 are complete credential documents, the others lack a
\* member, hold a key that is no PEM block or no RSA key, or are no JSON.
DecodeCredentials(sa) ==
    CASE sa \in {"g1", "g2"} -> [err |-> Nil, ClientEmail |-> "svc@p", PrivateKey |-> "rsa"]
      [] sa = "{}" -> [err |-> Nil, ClientEmail |-> "", PrivateKey |-> ""]
      [] sa = "gnokey" -> [err |-> Nil, ClientEmail |-> "svc@p", PrivateKey |-> " "]
      [] sa = "gnopem" -> [err |-> Nil, ClientEmail |-> "svc@p", PrivateKey |-> "nopem"]
      [] sa = "gec" -> [err |-> Nil, ClientEmail |-> "svc@p", PrivateKey |-> "ec"]
      [] sa = "xx" ->
            [err |-> Error("invalid character 'x' looking for beginning of value"),
             ClientEmail |-> "", PrivateKey |-> ""]
      [] sa = "yy" ->
            [err |-> Error("invalid character 'y' looking for beginning of value"),
             ClientEmail |-> "", PrivateKey |-> ""]
      [] OTHER ->
            [err |-> Error("unexpected end of JSON input"),
             ClientEmail |-> "", PrivateKey |-> ""]

\* newGCSStorage: [client, err]; the error carries the message and, when it
\* wraps one, the wrapped error
newGCSStorage(cfg) ==
    LET creds == DecodeCredentials(cfg.ServiceAccountJSON)
        fail(msg, cause) == [client |-> Nil, err |-> [msg |-> msg, cause |-> cause]]
    IN  IF TrimSpaceStr(cfg.Bucket) = "" THEN fail("gcs bucket not configured", Nil)
        ELSE IF creds.err # Nil THEN fail("decode service account: ", creds.err)
        ELSE IF TrimSpaceStr(creds.ClientEmail) = ""
             THEN fail("service account missing client_email", Nil)
        ELSE IF TrimSpaceStr(creds.PrivateKey) = ""
             THEN fail("service account missing private_key", Nil)
        ELSE IF creds.PrivateKey = "nopem"
             THEN fail("invalid service account private key", Nil)
        ELSE IF creds.PrivateKey # "rsa"
             THEN fail("service account private key is not RSA", Nil)
        ELSE [client |-> [kind |-> "gcs", bucketName |-> cfg.Bucket, prefix |-> cfg.Prefix],
              err |-> Nil]

\* newLocalStorage: os.MkdirAll of the storage root can fail
newLocalStorage(cfg, e) ==
    IF e.storageRootFails
    THEN [client |-> Nil, err |-> [msg |-> "create storage root: ", cause |-> Error("mkdir")]]
    ELSE [client |-> [kind |-> "local",
                      bucketName |-> IF TrimSpaceStr(cfg.Bucket) = "" THEN "local"
                                     ELSE TrimSpaceStr(cfg.Bucket),
                      prefix |-> cfg.Prefix],
          err |-> Nil]

\* newStorageClient: [client, err]
newStorageClient(cfg, e) ==
    IF ~IsFullyConfigured(cfg, e)
    THEN [client |-> Nil, err |-> [msg |-> "storage not configured", cause |-> Nil]]
    ELSE IF localStorageOverrideEnabled(e) THEN newLocalStorage(cfg, e)
    ELSE newGCSStorage(cfg)

\* NewApp building the storage client and failing to record its error.
InitStorage_DropsError(cfg, e) ==
    IF IsFullyConfigured(cfg, e)
    THEN [storage |-> newStorageClient(cfg, e).client, storageInitErr |-> Nil]
    ELSE [storage |-> Nil, storageInitErr |-> Nil]

\* The end of NewApp: a.storageInitErr = nil, then the storage client is
\* built when the configuration is complete; its error is kept, not returned.
InitStorage(cfg, e) ==
    IF IsFullyConfigured(cfg, e)
    THEN [storage |-> newStorageClient(cfg, e).client,
          storageInitErr |-> newStorageClient(cfg, e).err]
    ELSE [storage |-> Nil, storageInitErr |-> Nil]

\* The fields of no storage client and no recorded error
NoStorage == [storage |-> Nil, storageInitErr |-> Nil]

\* App.storageConfigured
storageConfigured(a, e) == a.storage # Nil /\ IsFullyConfigured(a.config, e)

\* The process environment the tests set: no override
DefaultEnv == [ASSETLOG_FORCE_LOCAL_STORAGE |-> "", storageRootFails |-> FALSE]

\* No asset, no attachment, no stored object
NoAssets == [rows |-> {}, files |-> {}, objects |-> {}]

\* Tenant ids of the instantiation contexts; 0 is a context without an org.
Orgs == {0, 1}

DocA == <<LB, Member("apiUrl", Str("u1")), Member("bucketName", Str("b1")), RB>>

\* DocA with the members reordered and white space added
DocAReordered ==
    <<WS, LB, Member("bucketName", Str("b1")), WS, Member("apiUrl", Str("u1")), RB, WS>>

DocB == <<LB, Member("apiUrl", Str("u1")), Member("bucketName", Str("b2")), RB>>

\* An unterminated object
DocBad == <<LB, Member("bucketName", Str("b1"))>>

\* JSONData payloads the host supplies
JSONInputs == {<<>>, <<WS>>, <<LB, RB>>, DocA, DocAReordered, DocB, DocBad}

\* DecryptedSecureJSONData payloads the host supplies
SecretInputs ==
    {EmptyMap,
     ("apiKey" :> "s1") @@ ("gcsServiceAccount" :> "g1"),
     ("apiKey" :> "s2"),
     ("apiKey" :> ""),
     ("apiKey" :> " ")}

SettingsInputs ==
    {Settings(j, m, u) : j \in JSONInputs, m \in SecretInputs, u \in 0..MaxTime}

\* What time.Now() can return when savePersistedAppSettings reads it
NowChoices(settings) == IF settings.Updated = 0 THEN 1..MaxTime ELSE {1}

\* NewApp's switch entered for tenant id 0 too.
Branch_NoBypass(orgID, settings, persisted) ==
    IF persisted = Nil
    THEN (IF hasNonEmptySettings(settings) THEN "first" ELSE "none")
    ELSE IF shouldPersistUpdate(settings, persisted) THEN "update"
    ELSE "persisted"

\* The case of NewApp's switch the instantiation takes
Branch(orgID, settings, persisted) ==
    IF orgID = 0 THEN "bypass"
    ELSE IF persisted = Nil
         THEN (IF hasNonEmptySettings(settings) THEN "first" ELSE "none")
    ELSE IF shouldPersistUpdate(settings, persisted) THEN "update"
    ELSE "persisted"

NoInstance ==
    [org |-> 0, settings |-> Settings(<<>>, EmptyMap, 0), branch |-> "none",
     effective |-> Settings(<<>>, EmptyMap, 0), err |-> FALSE, wrote |-> FALSE,
     before |-> {}, running |-> FALSE, config |-> Nil,
     storage |-> Nil, storageInitErr |-> Nil]

\* NewApp with every store call succeeding.  persistCandidate is saved with
\* the loaded record as the existing record; the storage client is built
\* last.  last records the instantiation and the fields of the App.
NewApp(orgID, settings, now) ==
    /\ ~last.running
    /\ \E persisted \in {IF orgID # 0
                          THEN loadPersistedAppSettings(app_settings, orgID).settings
                          ELSE Nil} :
       \E branch \in {Branch(orgID, settings, persisted)} :
       \E effectiveSettings \in
             {CASE branch = "update" -> mergeAppInstanceSettings(settings, persisted)
                [] branch = "persisted" -> persistedToAppInstanceSettings(persisted)
                [] OTHER -> mergeAppInstanceSettings(settings, Nil)} :
       \E parsed \in {parseConfig(effectiveSettings)} :
       \E err \in {parsed.err} :
       \E built \in {IF err THEN NoStorage ELSE InitStorage(parsed.cfg, env)} :
          /\ app_settings' =
                IF ~err /\ branch \in {"first", "update"}
                THEN savePersistedAppSettings(app_settings, orgID, effectiveSettings,
                                              persisted, now)
                ELSE app_settings
          /\ last' = [org |-> orgID, settings |-> settings, branch |-> branch,
                      effective |-> effectiveSettings, err |-> err,
                      wrote |-> ~err /\ branch \in {"first", "update"},
                      before |-> app_settings, running |-> TRUE,
                      config |-> IF err THEN Nil ELSE parsed.cfg,
                      storage |-> built.storage,
                      storageInitErr |-> built.storageInitErr]
    /\ UNCHANGED <<calls, reply, env, assets>>

\* The host disposes of the instance (or drops the failed instantiation)
\* before it instantiates again.
Dispose ==
    /\ last.running
    /\ last' = NoInstance
    /\ UNCHANGED <<app_settings, calls, reply, env, assets>>

\* No resource request was handled yet
NoReply == [handled |-> FALSE]

\* Tenants the host instantiates concurrently
Tenants == {1, 2}

\* No instantiation of the tenant is in progress
IdleCall == [pc |-> "idle"]

Init ==
    /\ app_settings = {}
    /\ last = NoInstance
    /\ calls = [t \in Tenants |-> IdleCall]
    /\ reply = NoReply
    /\ env = DefaultEnv
    /\ assets = NoAssets

Next ==
    \/ \E orgID \in Orgs, settings \in SettingsInputs :
          \E now \in NowChoices(settings) : NewApp(orgID, settings, now)
    \/ Dispose

Spec == Init /\ [][Next]_vars

\* Candidates handed to a direct call of savePersistedAppSettings
SaveInputs ==
    {Settings(j, m, u) : j \in {DocA, DocB},
                         m \in SecretInputs \ {"apiKey" :> " "},
                         u \in 1..MaxTime}

\* savePersistedAppSettings called on its own: any candidate, with the
\* tenant's stored record as the existing record.
StoreSave(orgID, candidate, now) ==
    /\ ~last.running
    /\ \E existing \in {loadPersistedAppSettings(app_settings, orgID).settings} :
          app_settings' =
              savePersistedAppSettings(app_settings, orgID, candidate, existing, now)
    /\ last' = [org |-> orgID, settings |-> candidate, branch |-> "save",
                effective |-> candidate, err |-> FALSE, wrote |-> TRUE,
                before |-> app_settings, running |-> TRUE, config |-> Nil,
                storage |-> Nil, storageInitErr |-> Nil, now |-> now]
    /\ UNCHANGED <<calls, reply, env, assets>>

NextSave ==
    \/ \E settings \in SaveInputs : NewApp(1, settings, 1)
    \/ \E candidate \in SaveInputs : StoreSave(1, candidate, 1)
    \/ Dispose

\* The store driven by NewApp and by direct saves of arbitrary candidates
SaveSpec == Init /\ [][NextSave]_vars

\* Payloads of the concurrent instantiations
ConcInputs ==
    {Settings(j, m, u) : j \in {DocA, DocB},
                         m \in {EmptyMap, "apiKey" :> "s2"},
                         u \in {1, 2}}

\* What NewApp decides between its load and its save: the case of its
\* switch, the effective settings, parseConfig's error, whether it saves.
Reconcile(orgID, settings, persisted) ==
    LET branch == Branch(orgID, settings, persisted)
        effectiveSettings ==
            CASE branch = "update" -> mergeAppInstanceSettings(settings, persisted)
              [] branch = "persisted" -> persistedToAppInstanceSettings(persisted)
              [] OTHER -> mergeAppInstanceSettings(settings, Nil)
        parsed == parseConfig(effectiveSettings)
        err == parsed.err
    IN  [branch |-> branch, effective |-> effectiveSettings, err |-> err,
         wrote |-> ~err /\ branch \in {"first", "update"},
         config |-> IF err THEN Nil ELSE parsed.cfg]

\* NewApp run on its own, without a step of another instantiation between
\* its load and its save: the table after it.
NewAppAlone(table, orgID, settings, now) ==
    LET persisted == loadPersistedAppSettings(table, orgID).settings
        rec == Reconcile(orgID, settings, persisted)
    IN  IF rec.wrote
        THEN savePersistedAppSettings(table, orgID, rec.effective, persisted, now)
        ELSE table

\* First half of NewApp for tenant t: the load of the tenant's record.
\* alone is the tenant's row as NewApp would leave it when run on a table
\* holding nothing but that tenant's row; during are the tenants whose
\* instantiation is between its load and its save at this moment.
LoadStep(t, settings, now) ==
    /\ calls[t].pc = "idle"
    /\ \E persisted \in {loadPersistedAppSettings(app_settings, t).settings} :
          calls' = [calls EXCEPT ![t] =
                       [pc |-> "loaded", settings |-> settings, now |-> now,
                        persisted |-> persisted,
                        during |-> {u \in Tenants : calls[u].pc = "loaded"},
                        alone |-> RowsOf(NewAppAlone(RowsOf(app_settings, t), t,
                                                     settings, now), t)]]
    /\ UNCHANGED <<app_settings, last, reply, env, assets>>

\* Second half of NewApp for tenant t: the decision on the loaded record,
\* parseConfig and the save of persistCandidate.
SaveStep(t) ==
    /\ calls[t].pc = "loaded"
    /\ \E c \in {calls[t]} :
       \E rec \in {Reconcile(t, c.settings, c.persisted)} :
          /\ app_settings' =
                IF rec.wrote
                THEN savePersistedAppSettings(app_settings, t, rec.effective,
                                              c.persisted, c.now)
                ELSE app_settings
          /\ calls' = [calls EXCEPT ![t] =
                          [pc |-> "done", settings |-> c.settings, now |-> c.now,
                           persisted |-> c.persisted, during |-> c.during,
                           alone |-> c.alone,
                           branch |-> rec.branch, effective |-> rec.effective,
                           err |-> rec.err, wrote |-> rec.wrote,
                           config |-> rec.config]]
    /\ UNCHANGED <<last, reply, env, assets>>

\* The host disposes of tenant t's instance.
DisposeStep(t) ==
    /\ calls[t].pc = "done"
    /\ calls' = [calls EXCEPT ![t] = IdleCall]
    /\ UNCHANGED <<app_settings, last, reply, env, assets>>

NextConc ==
    \/ \E t \in Tenants, settings \in ConcInputs : LoadStep(t, settings, 1)
    \/ \E t \in Tenants : SaveStep(t)
    \/ \E t \in Tenants : DisposeStep(t)

\* Instantiations of different tenants interleaved at their store calls;
\* the instantiations of one tenant are serialized by the host.
ConcSpec == Init /\ [][NextConc]_vars

\* Configured upload sizes: every value around zero and up to just above
\* the limit, and some far above it.
UploadSizes == (-2..MaxUploadInput) \cup {1000000, 2147483647}

UploadDoc(m) ==
    <<LB, Member("bucketName", Str("b1")), Member("maxUploadSizeMb", Num(m)), RB>>

\* Settings with and without the maxUploadSizeMb member
ConfigInputs ==
    {Settings(UploadDoc(m), sec, 1) : m \in UploadSizes,
                                      sec \in {EmptyMap, "apiKey" :> "s2"}}
        \cup {Settings(j, EmptyMap, 1) : j \in {<<>>, <<LB, RB>>, DocA}}

NextConfig ==
    \/ \E settings \in ConfigInputs : NewApp(0, settings, 1)
    \/ Dispose

\* Instantiations outside an org: the effective settings are the incoming
\* ones and parseConfig resolves them.
ConfigSpec == Init /\ [][NextConfig]_vars

\* Store calls of one instantiation that can fail: initDatabase, the query
\* of loadPersistedAppSettings, the statement of savePersistedAppSettings.
Faults == {"none", "initDatabase", "load", "save"}

FaultInputs ==
    {Settings(j, m, u) :
        j \in {<<>>, DocA, DocB, DocBad},
        m \in {EmptyMap, "apiKey" :> "s2",
                ("apiKey" :> "s1") @@ ("gcsServiceAccount" :> "g1")},
        u \in 0..2}

\* The statement of savePersistedAppSettings writing the live columns and
\* then failing.
SaveOutcome_PartialWrite(table, orgID, settings, existing, now, fault) ==
    IF fault = "save"
    THEN {IF r.org_id = orgID
          THEN [r EXCEPT !.json_data = canonicalizeJSON(settings.JSONData)]
          ELSE r : r \in table}
    ELSE savePersistedAppSettings(table, orgID, settings, existing, now)

\* savePersistedAppSettings whose statement may fail: a failed statement
\* leaves the table as it was.
SaveOutcome(table, orgID, settings, existing, now, fault) ==
    IF fault = "save" THEN table
    ELSE savePersistedAppSettings(table, orgID, settings, existing, now)

\* NewApp with one store call failing.  A failed initDatabase makes NewApp
\* return the error; a failed load is logged and leaves persisted nil; a
\* failed save is logged.
NewAppFaulty(orgID, settings, now, fault) ==
    /\ ~last.running
    /\ IF fault = "initDatabase"
       THEN /\ app_settings' = app_settings
            /\ last' = [org |-> orgID, settings |-> settings, branch |-> "none",
                        effective |-> Settings(<<>>, EmptyMap, 0), err |-> TRUE,
                        wrote |-> FALSE, before |-> app_settings, running |-> TRUE,
                        config |-> Nil, storage |-> Nil, storageInitErr |-> Nil,
                        fault |-> fault, loadErr |-> FALSE]
       ELSE \E loaded \in {IF fault = "load" THEN [err |-> TRUE, settings |-> Nil]
                            ELSE loadPersistedAppSettings(app_settings, orgID)} :
            \E persisted \in {loaded.settings} :
            \E branch \in {Branch(orgID, settings, persisted)} :
            \E effectiveSettings \in
                  {CASE branch = "update" -> mergeAppInstanceSettings(settings, persisted)
                     [] branch = "persisted" -> persistedToAppInstanceSettings(persisted)
                     [] OTHER -> mergeAppInstanceSettings(settings, Nil)} :
            \E parsed \in {parseConfig(effectiveSettings)} :
            \E saves \in {~parsed.err /\ branch \in {"first", "update"}} :
            \E built \in {IF parsed.err THEN NoStorage
                           ELSE InitStorage(parsed.cfg, env)} :
               /\ app_settings' =
                     IF saves
                     THEN SaveOutcome(app_settings, orgID, effectiveSettings,
                                      persisted, now, fault)
                     ELSE app_settings
               /\ last' = [org |-> orgID, settings |-> settings, branch |-> branch,
                           effective |-> effectiveSettings, err |-> parsed.err,
                           wrote |-> saves /\ fault # "save",
                           before |-> app_settings, running |-> TRUE,
                           config |-> IF parsed.err THEN Nil ELSE parsed.cfg,
                           storage |-> built.storage,
                           storageInitErr |-> built.storageInitErr,
                           fault |-> fault, loadErr |-> loaded.err]
    /\ UNCHANGED <<calls, reply, env, assets>>

\* The database file is changed outside the plugin: the tenant's secret map
\* is no longer a JSON object, or its settings JSON is cut short.
TamperRow(orgID, column) ==
    /\ ~last.running
    /\ RowsOf(app_settings, orgID) # {}
    /\ \E row \in RowsOf(app_settings, orgID) :
       \E bad \in {IF column = "secure_json_data"
                    THEN [row EXCEPT !.secure_json_data = NullString(TRUE, <<LB>>)]
                    ELSE [row EXCEPT !.json_data = DocBad]} :
          /\ bad # row
          /\ app_settings' = Upsert(app_settings, bad)
    /\ UNCHANGED <<last, calls, reply, env, assets>>

NextFault ==
    \/ \E settings \in FaultInputs, fault \in Faults :
          NewAppFaulty(1, settings, 1, fault)
    \/ \E column \in {"secure_json_data", "json_data"} : TamperRow(1, column)
    \/ Dispose

\* Instantiations of one tenant whose store calls can fail and whose row
\* can be damaged between instantiations.
FaultSpec == Init /\ [][NextFault]_vars

\* A string of a token claim: a prefix ("org:", "org-" or none) and the rest
ClaimStr(pre, rest) == [pre |-> pre, rest |-> rest]

IsClaimStr(v) == "pre" \in DOMAIN v

\* strconv.ParseInt(s, 10, 64) on the decimal texts in use: <<value, ok>>
ParseInt(s) ==
    CASE s = "0" -> <<0, TRUE>>
      [] s = "1" -> <<1, TRUE>>
      [] s = "01" -> <<1, TRUE>>
      [] s = "2" -> <<2, TRUE>>
      [] s = "+2" -> <<2, TRUE>>
      [] s = "-1" -> <<-1, TRUE>>
      [] OTHER -> <<0, FALSE>>

\* The first string of an aud list that starts with "org:", Nil when none
RECURSIVE FirstOrgAud(_)
FirstOrgAud(list) ==
    IF Len(list) = 0 THEN Nil
    ELSE IF IsClaimStr(Head(list)) /\ Head(list).pre = "org:" THEN Head(list)
    ELSE FirstOrgAud(Tail(list))

\* orgIDFromGrafanaJWT: <<orgID, ok>>.  A token is the sequence of its
\* dot-separated parts; its second part is [b64, json, claims].
orgIDFromGrafanaJWT(jwt) ==
    IF Len(jwt) # 3 THEN <<0, FALSE>>
    ELSE IF ~jwt[2].b64 THEN <<0, FALSE>>
    ELSE IF ~jwt[2].json THEN <<0, FALSE>>
    ELSE LET claims == jwt[2].claims
             aud == IF "aud" \in DOMAIN claims THEN claims["aud"] ELSE Nil
             audOrg == IF aud = Nil THEN Nil
                       ELSE IF IsClaimStr(aud)
                            THEN (IF aud.pre = "org:" THEN aud ELSE Nil)
                       ELSE IF "num" \in DOMAIN aud THEN Nil
                       ELSE FirstOrgAud(aud.list)
             ns == IF "namespace" \in DOMAIN claims THEN claims["namespace"] ELSE Nil
         IN  IF audOrg # Nil THEN ParseInt(audOrg.rest)
             ELSE IF ns # Nil /\ IsClaimStr(ns) /\ ns.pre = "org-" THEN ParseInt(ns.rest)
             ELSE <<0, FALSE>>

\* getOrgFromRequest: <<orgID, ok>> from the X-Grafana-Id header
getOrgFromRequest(r) ==
    IF r.token = <<>> THEN <<0, FALSE>> ELSE orgIDFromGrafanaJWT(r.token)

\* resolveOrgIDFromRequest answering with the requested org when the query
\* names one.
resolveOrgIDFromRequest_PrefersQuery(r) ==
    LET v == TrimSpaceStr(r.orgId)
        parsed == ParseInt(v)
        org == getOrgFromRequest(r)
    IN  IF v # "" /\ ~parsed[2] THEN [status |-> 400, orgID |-> 0]
        ELSE IF v # "" THEN [status |-> 200, orgID |-> parsed[1]]
        ELSE IF r.pc # Nil THEN [status |-> 200, orgID |-> r.pc.OrgID]
        ELSE IF ~org[2] THEN [status |-> 403, orgID |-> 0]
        ELSE [status |-> 200, orgID |-> org[1]]

\* resolveOrgIDFromRequest reading the token before the plugin context.
resolveOrgIDFromRequest_TokenFirst(r) ==
    LET v == TrimSpaceStr(r.orgId)
        parsed == ParseInt(v)
        requested == v # ""
        org == getOrgFromRequest(r)
    IN  IF requested /\ ~parsed[2] THEN [status |-> 400, orgID |-> 0]
        ELSE IF org[2]
             THEN (IF requested /\ parsed[1] # org[1]
                   THEN [status |-> 403, orgID |-> 0]
                   ELSE [status |-> 200, orgID |-> org[1]])
        ELSE IF r.pc = Nil THEN [status |-> 403, orgID |-> 0]
        ELSE IF requested /\ parsed[1] # r.pc.OrgID THEN [status |-> 403, orgID |-> 0]
        ELSE [status |-> 200, orgID |-> r.pc.OrgID]

\* resolveOrgIDFromRequest: the org id, or the status writeHTTPError gives
\* its error (400 for a validationError, 403 for the httpError)
resolveOrgIDFromRequest(r) ==
    LET v == TrimSpaceStr(r.orgId)
        parsed == ParseInt(v)
        requested == v # ""
        org == getOrgFromRequest(r)
    IN  IF requested /\ ~parsed[2] THEN [status |-> 400, orgID |-> 0]
        ELSE IF r.pc # Nil
             THEN (IF requested /\ parsed[1] # r.pc.OrgID
                   THEN [status |-> 403, orgID |-> 0]
                   ELSE [status |-> 200, orgID |-> r.pc.OrgID])
        ELSE IF ~org[2] THEN [status |-> 403, orgID |-> 0]
        ELSE IF requested /\ parsed[1] # org[1] THEN [status |-> 403, orgID |-> 0]
        ELSE [status |-> 200, orgID |-> org[1]]

\* Values of the aud and namespace claims
AudInputs ==
    {Nil, ClaimStr("org:", "1"), ClaimStr("org:", "2"), ClaimStr("org:", "x"),
     ClaimStr("", "grafana"), [num |-> 7],
     [list |-> <<ClaimStr("", "grafana"), ClaimStr("org:", "2")>>],
     [list |-> <<[num |-> 1], ClaimStr("org:", "1"), ClaimStr("org:", "2")>>]}

NamespaceInputs ==
    {Nil, ClaimStr("org-", "1"), ClaimStr("org-", "2"), ClaimStr("", "default")}

\* The claims object holding the given aud and namespace
Claims(aud, ns) ==
    [k \in (IF aud # Nil THEN {"aud"} ELSE {}) \cup (IF ns # Nil THEN {"namespace"} ELSE {})
        |-> IF k = "aud" THEN aud ELSE ns]

\* X-Grafana-Id headers: none, two parts, a payload that is no base64 or
\* no JSON, and well-formed tokens
TokenInputs ==
    {<<>>, <<"h", "p">>,
     <<"h", [b64 |-> FALSE, json |-> FALSE, claims |-> EmptyMap], "s">>,
     <<"h", [b64 |-> TRUE, json |-> FALSE, claims |-> EmptyMap], "s">>}
        \cup {<<"h", [b64 |-> TRUE, json |-> TRUE, claims |-> Claims(aud, ns)], "s">> :
                 aud \in AudInputs, ns \in NamespaceInputs}

\* Resource requests: the orgId query parameter, the plugin context set by
\* CallResource (Nil when there is none) and the X-Grafana-Id header
Requests ==
    [orgId : {"", " ", "0", "1", "01", "2", "+2", "-1", "x"},
     pc : {Nil, [OrgID |-> 0], [OrgID |-> 1], [OrgID |-> 2]},
     token : TokenInputs]

\* A handler resolves the tenant of request r.
ResolveOrg(r) ==
    /\ reply' = [handled |-> TRUE, request |-> r,
                 result |-> resolveOrgIDFromRequest(r)]
    /\ UNCHANGED <<app_settings, last, calls, env, assets>>

NextRequest == \E r \in Requests : ResolveOrg(r)

\* Resource requests resolved one after the other
RequestSpec == Init /\ [][NextRequest]_vars

\* A health check result and its message: the text and, when the message
\* formats an error with %v, that error
HealthResult(status, text, err) ==
    [Status |-> status, Message |-> [text |-> text, err |-> err]]

\* CheckHealth answering ok whenever no initialisation error is recorded.
CheckHealth_IgnoresConfig(a, e, pingFails) ==
    IF pingFails THEN HealthResult("ERROR", "db ping failed: ", Error("ping"))
    ELSE IF a.storageInitErr # Nil
         THEN HealthResult("ERROR", "storage initialization failed: ", a.storageInitErr)
    ELSE IF localStorageOverrideEnabled(e)
         THEN HealthResult("OK", "local storage override enabled", Nil)
    ELSE HealthResult("OK", "ok", Nil)

\* CheckHealth of App a; pingFails is the outcome of a.db.Ping()
CheckHealth(a, e, pingFails) ==
    IF pingFails THEN HealthResult("ERROR", "db ping failed: ", Error("ping"))
    ELSE IF a.storageInitErr # Nil
         THEN HealthResult("ERROR", "storage initialization failed: ", a.storageInitErr)
    ELSE IF localStorageOverrideEnabled(e)
         THEN HealthResult("OK", "local storage override enabled", Nil)
    ELSE IF a.config.Bucket = "" /\ a.config.ServiceAccountJSON = ""
         THEN HealthResult("ERROR", "storage bucket and service account not configured", Nil)
    ELSE IF a.config.Bucket = ""
         THEN HealthResult("ERROR", "storage bucket not configured", Nil)
    ELSE IF a.config.ServiceAccountJSON = ""
         THEN HealthResult("ERROR", "storage service account not configured", Nil)
    ELSE HealthResult("OK", "ok", Nil)

\* What a handler answers: the status, the body, the store operations it
\* ran in order, and the asset store after it
Answer(status, body, ops, store) ==
    [status |-> status, body |-> body, ops |-> ops, store |-> store]

\* http.Error with the given text
ErrorBody(text) == [error |-> text]

\* handleAppSettings: the read endpoint of the effective configuration
handleAppSettings(a, e, store, method, r) ==
    IF method # "GET" THEN Answer(405, ErrorBody("method not allowed"), <<>>, store)
    ELSE IF resolveOrgIDFromRequest(r).status # 200
         THEN Answer(resolveOrgIDFromRequest(r).status, ErrorBody("tenant"), <<>>, store)
    ELSE Answer(200,
                [jsonData |-> [apiUrl |-> a.config.APIURL,
                               bucketName |-> a.config.Bucket,
                               objectPrefix |-> a.config.Prefix,
                               maxUploadSizeMb |-> a.config.MaxUploadSizeMB],
                 secureJsonFields |-> [apiKey |-> a.config.APIKey # "",
                                       gcsServiceAccount |->
                                           a.config.ServiceAccountJSON # ""],
                 storage |-> [configured |-> storageConfigured(a, e),
                              error |-> a.storageInitErr]],
                <<>>, store)

\* Largest asset id and largest attachment id the tables hand out
MaxAssets == 1

MaxFiles == 1

\* Largest random part of a storage key
MaxObjects == 2

\* LastInsertId of an INSERT into a table holding the given ids
NextID(ids) == IF ids = {} THEN 1 ELSE (CHOOSE m \in ids : \A i \in ids : i <= m) + 1

\* The rows SELECT ... FROM assets WHERE org_id = ? AND id = ? yields
AssetRows(store, orgID, assetID) ==
    {a \in store.rows : a.org_id = orgID /\ a.id = assetID}

\* The rows of asset_files of one asset of one tenant
FileRows(store, orgID, assetID) ==
    {f \in store.files : f.org_id = orgID /\ f.asset_id = assetID}

\* decodeAssetPayload followed by normalize and validate: a JSON body
\* decodes, and its title must not be blank
PayloadValid(body) == body.kind = "json" /\ body.Title # ""

\* createAsset with a valid payload: the INSERT and the asset read back
createAsset(store, orgID, body) ==
    [store EXCEPT !.rows = @ \cup {[org_id |-> orgID,
                                    id |-> NextID({a.id : a \in store.rows}),
                                    title |-> body.Title]}]

\* updateAsset with a valid payload: UPDATE ... WHERE org_id = ? AND id = ?
updateAsset(store, orgID, assetID, body) ==
    [store EXCEPT !.rows = {IF a.org_id = orgID /\ a.id = assetID
                            THEN [a EXCEPT !.title = body.Title] ELSE a : a \in @}]

\* deleteAsset: the objects of the asset's attachments are deleted when the
\* storage is configured, then the asset row; asset_files rows follow by
\* ON DELETE CASCADE
deleteAsset(a, e, store, orgID, assetID) ==
    LET keys == {f.object_name : f \in FileRows(store, orgID, assetID)}
        objects == IF storageConfigured(a, e) THEN store.objects \ keys ELSE store.objects
    IN  IF AssetRows(store, orgID, assetID) = {} THEN [store EXCEPT !.objects = objects]
        ELSE [rows |-> store.rows \ AssetRows(store, orgID, assetID),
              files |-> {f \in store.files : f.asset_id # assetID},
              objects |-> objects]

\* generateStorageKey names the tenant and the asset and carries a random
\* part: the key is none the storage or a row holds
generateStorageKey(store, orgID, assetID) ==
    [org |-> orgID, asset |-> assetID,
     unique |-> NextID({k.unique : k \in store.objects
                                      \cup {f.object_name : f \in store.files}})]

\* Calls of an upload that fail: the Upload of the storage; the INSERT of
\* insertAssetFile; getAssetFile reading the inserted row back; with either
\* of the last two, the Delete that removes the object again
UploadFaults ==
    {{}, {"Upload"}, {"INSERT"}, {"INSERT", "Delete"},
     {"getAssetFile"}, {"getAssetFile", "Delete"}}

\* handleAssetFileUpload: the checks, the Upload to the storage, then
\* insertAssetFile (INSERT and read back); when insertAssetFile returns an
\* error the object is deleted again
handleAssetFileUpload(a, e, store, orgID, assetID, body, fault) ==
    LET key == generateStorageKey(store, orgID, assetID)
        fileID == NextID({f.id : f \in store.files})
        uploaded == [store EXCEPT !.objects = @ \cup {key}]
        inserted == [uploaded EXCEPT !.files = @ \cup {[org_id |-> orgID,
                                                        asset_id |-> assetID,
                                                        id |-> fileID,
                                                        object_name |-> key]}]
        cleaned(s) == IF "Delete" \in fault THEN s ELSE [s EXCEPT !.objects = @ \ {key}]
    IN  IF ~storageConfigured(a, e)
        THEN Answer(400, [error |-> "attachments", cause |-> a.storageInitErr], <<>>, store)
        ELSE IF AssetRows(store, orgID, assetID) = {}
        THEN Answer(404, ErrorBody("not found"), <<"ensureAssetExists">>, store)
        ELSE IF body.kind # "multipart"
        THEN Answer(400, ErrorBody("invalid multipart form"), <<"ensureAssetExists">>, store)
        ELSE IF body.file = "missing"
        THEN Answer(400, ErrorBody("missing file upload"), <<"ensureAssetExists">>, store)
        ELSE IF body.file = "empty"
        THEN Answer(400, ErrorBody("file is empty"), <<"ensureAssetExists">>, store)
        ELSE IF "Upload" \in fault
        THEN Answer(500, ErrorBody("failed to upload attachment"),
                    <<"ensureAssetExists", "Upload">>, store)
        ELSE IF "INSERT" \in fault
        THEN Answer(500, ErrorBody("internal server error"),
                    <<"ensureAssetExists", "Upload", "insertAssetFile", "Delete">>,
                    cleaned(uploaded))
        ELSE IF "getAssetFile" \in fault
        THEN Answer(500, ErrorBody("internal server error"),
                    <<"ensureAssetExists", "Upload", "insertAssetFile", "Delete">>,
                    cleaned(inserted))
        ELSE Answer(201, [data |-> fileID],
                    <<"ensureAssetExists", "Upload", "insertAssetFile">>, inserted)

\* deleteAssetFile of an existing attachment
deleteAssetFile(a, e, store, orgID, assetID, fileID) ==
    LET rows == {f \in FileRows(store, orgID, assetID) : f.id = fileID}
    IN  [store EXCEPT !.objects = IF storageConfigured(a, e)
                                  THEN @ \ {f.object_name : f \in rows} ELSE @,
                      !.files = @ \ rows]

\* handleAssetsCollection running the store operation before it resolves
\* the tenant, on the org the query names.
handleAssetsCollection_StoreFirst(a, e, store, method, r, body) ==
    LET res == resolveOrgIDFromRequest(r)
        orgID == IF res.status = 200 THEN res.orgID ELSE ParseInt(TrimSpaceStr(r.orgId))[1]
    IN  IF method = "GET"
        THEN Answer(res.status, [data |-> {x.id : x \in RowsOf(store.rows, orgID)}],
                    <<"listAssets">>, store)
        ELSE IF method = "POST" /\ PayloadValid(body)
        THEN Answer(IF res.status = 200 THEN 201 ELSE res.status, ErrorBody(""),
                    <<"createAsset">>, createAsset(store, orgID, body))
        ELSE Answer(IF res.status = 200 THEN 405 ELSE res.status, ErrorBody(""),
                    <<>>, store)

\* handleAssetsCollection: GET lists the tenant's assets, POST creates one
handleAssetsCollection(a, e, store, method, r, body) ==
    LET res == resolveOrgIDFromRequest(r)
        orgID == res.orgID
    IN  IF res.status # 200 THEN Answer(res.status, ErrorBody("tenant"), <<>>, store)
        ELSE IF method = "GET"
        THEN Answer(200,
                    [data |-> {x.id : x \in RowsOf(store.rows, orgID)},
                     meta |-> [storageConfigured |-> storageConfigured(a, e),
                               maxUploadSizeMb |-> a.config.MaxUploadSizeMB,
                               storageError |-> a.storageInitErr]],
                    <<"listAssets">>, store)
        ELSE IF method = "POST"
        THEN (IF ~PayloadValid(body)
              THEN Answer(400, ErrorBody("invalid payload"), <<>>, store)
              ELSE Answer(201, [data |-> NextID({x.id : x \in store.rows})],
                          <<"createAsset", "getAsset">>, createAsset(store, orgID, body)))
        ELSE Answer(405, ErrorBody("method not allowed"), <<>>, store)

\* handleAssetResource: path holds the segments after /assets/.  One
\* segment addresses the asset, <<id, "files">> its attachments and
\* <<id, "files", fileID>> one attachment.
handleAssetResource(a, e, store, method, r, path, body) ==
    LET res == resolveOrgIDFromRequest(r)
        orgID == res.orgID
        assetID == ParseInt(path[1])[1]
        found == AssetRows(store, orgID, assetID) # {}
    IN  IF res.status # 200 THEN Answer(res.status, ErrorBody("tenant"), <<>>, store)
        ELSE IF Len(path) = 0 THEN Answer(404, ErrorBody("not found"), <<>>, store)
        ELSE IF ~ParseInt(path[1])[2]
             THEN Answer(400, ErrorBody("invalid asset id"), <<>>, store)
        ELSE IF Len(path) = 1
        THEN CASE method = "GET" ->
                    IF found THEN Answer(200, [data |-> assetID], <<"getAsset">>, store)
                    ELSE Answer(404, ErrorBody("not found"), <<"getAsset">>, store)
               [] method = "PUT" ->
                    IF ~PayloadValid(body)
                    THEN Answer(400, ErrorBody("invalid payload"), <<>>, store)
                    ELSE IF ~found
                    THEN Answer(404, ErrorBody("not found"), <<"updateAsset">>, store)
                    ELSE Answer(200, [data |-> assetID], <<"updateAsset", "getAsset">>,
                                updateAsset(store, orgID, assetID, body))
               [] method = "DELETE" ->
                    IF ~found
                    THEN Answer(404, ErrorBody("not found"), <<"deleteAsset">>,
                                deleteAsset(a, e, store, orgID, assetID))
                    ELSE Answer(204, ErrorBody(""), <<"deleteAsset">>,
                                deleteAsset(a, e, store, orgID, assetID))
               [] OTHER -> Answer(405, ErrorBody("method not allowed"), <<>>, store)
        ELSE IF path[2] = "files"
        THEN CASE method = "POST" /\ Len(path) = 2 ->
                    handleAssetFileUpload(a, e, store, orgID, assetID, body, {})
               [] method = "DELETE" /\ Len(path) = 3 ->
                    IF ~ParseInt(path[3])[2]
                    THEN Answer(400, ErrorBody("invalid file id"), <<>>, store)
                    ELSE IF {f \in FileRows(store, orgID, assetID) :
                                f.id = ParseInt(path[3])[1]} = {}
                    THEN Answer(404, ErrorBody("file not found"), <<"getAssetFile">>, store)
                    ELSE Answer(204, ErrorBody(""), <<"getAssetFile", "deleteAssetFile">>,
                                deleteAssetFile(a, e, store, orgID, assetID,
                                                ParseInt(path[3])[1]))
               [] OTHER -> Answer(405, ErrorBody("method not allowed"), <<>>, store)
        ELSE Answer(404, ErrorBody("not found"), <<>>, store)

\* The App of the running instance
App == [config |-> last.config, storage |-> last.storage,
        storageInitErr |-> last.storageInitErr]

\* The host has an instance whose NewApp returned no error
Serving == last.running /\ ~last.err

\* The host asks the instance for its health.
Health(pingFails) ==
    /\ Serving
    /\ reply' = [handled |-> TRUE, handler |-> "CheckHealth", pingFails |-> pingFails,
                 result |-> CheckHealth(App, env, pingFails)]
    /\ UNCHANGED <<app_settings, last, calls, env, assets>>

\* A resource request handled by the instance; answer is what its handler
\* computes.  The ids the tables hand out stay within MaxAssets and MaxFiles.
Handle(handler, method, r, answer) ==
    /\ Serving
    /\ \A x \in answer.store.rows : x.id <= MaxAssets
    /\ \A f \in answer.store.files : f.id <= MaxFiles
    /\ \A k \in answer.store.objects : k.unique <= MaxObjects
    /\ assets' = answer.store
    /\ reply' = [handled |-> TRUE, handler |-> handler, method |-> method,
                 request |-> r, status |-> answer.status, body |-> answer.body,
                 ops |-> answer.ops]
    /\ UNCHANGED <<app_settings, last, calls, env>>

HandleAppSettings(method, r) ==
    Handle("handleAppSettings", method, r, handleAppSettings(App, env, assets, method, r))

HandleAssetsCollection(method, r, body) ==
    Handle("handleAssetsCollection", method, r,
           handleAssetsCollection(App, env, assets, method, r, body))

HandleAssetResource(method, r, path, body) ==
    Handle("handleAssetResource", method, r,
           handleAssetResource(App, env, assets, method, r, path, body))

\* A token whose aud claim names org 2
TokenOrg2 ==
    <<"h", [b64 |-> TRUE, json |-> TRUE, claims |-> Claims(ClaimStr("org:", "2"), Nil)], "s">>

\* Requests of the resource handlers: resolved from the plugin context or
\* from the token, a mismatching orgId, no source at all, an invalid orgId
ResourceRequests ==
    {[orgId |-> "", pc |-> [OrgID |-> 1], token |-> <<>>],
     [orgId |-> "2", pc |-> [OrgID |-> 1], token |-> <<>>],
     [orgId |-> "", pc |-> Nil, token |-> <<>>],
     [orgId |-> "2", pc |-> Nil, token |-> TokenOrg2],
     [orgId |-> "x", pc |-> [OrgID |-> 1], token |-> <<>>]}

Methods == {"GET", "POST", "PUT", "DELETE"}

\* Request bodies: JSON asset payloads without and with a title, multipart
\* forms without a file part, with an empty file and with a file
Bodies ==
    {[kind |-> "json", Title |-> ""], [kind |-> "json", Title |-> "t1"],
     [kind |-> "multipart", file |-> "missing"], [kind |-> "multipart", file |-> "empty"],
     [kind |-> "multipart", file |-> "ok"]}

Paths == {<<>>, <<"x">>, <<"1">>, <<"1", "files">>, <<"1", "files", "1">>, <<"1", "other">>}

\* A complete storage configuration and one without credentials
ResourceInputs ==
    {Settings(DocA, m, 1) : m \in {EmptyMap, ("apiKey" :> "s1") @@ ("gcsServiceAccount" :> "g1")}}

NextResource ==
    \/ \E settings \in ResourceInputs : NewApp(1, settings, 1)
    \/ Dispose
    \/ \E method \in Methods, r \in ResourceRequests : HandleAppSettings(method, r)
    \/ \E method \in Methods, r \in ResourceRequests, body \in Bodies :
          HandleAssetsCollection(method, r, body)
    \/ \E method \in Methods, r \in ResourceRequests, path \in Paths, body \in Bodies :
          HandleAssetResource(method, r, path, body)

\* One instance serving resource requests of two tenants
ResourceSpec == Init /\ [][NextResource]_vars

\* Credential texts of the gcsServiceAccount secret
CredentialInputs == {"g1", "g2", "{}", "gnokey", "gnopem", "gec", "xx", "yy", " "}

DocNoBucket == <<LB, Member("apiUrl", Str("u1")), RB>>

\* Payloads with and without a bucket, an api key and a credential
HealthInputs ==
    {Settings(j, m, 1) :
        j \in {DocA, DocNoBucket},
        m \in {EmptyMap, "apiKey" :> "s1"}
                \cup {"gcsServiceAccount" :> g : g \in CredentialInputs}
                \cup {("apiKey" :> k) @@ ("gcsServiceAccount" :> g) :
                         k \in {"s1", "s2"}, g \in {"g1", "g2", "xx"}}}

\* Process environments: the override off and on, the storage root of
\* the override creatable or not
Environments ==
    [ASSETLOG_FORCE_LOCAL_STORAGE : {"", "on"}, storageRootFails : BOOLEAN]
        \cup {[ASSETLOG_FORCE_LOCAL_STORAGE |-> "off", storageRootFails |-> FALSE]}

\* Payloads of the tenant's instantiations: complete, with a credential
\* that is no JSON, with one that lacks its members, and empty
HealthTenantInputs ==
    {Settings(DocA, "gcsServiceAccount" :> g, 1) : g \in {"g1", "xx", "{}"}}
        \cup {Settings(<<>>, EmptyMap, 0)}

InitHealth ==
    /\ app_settings = {}
    /\ last = NoInstance
    /\ calls = [t \in Tenants |-> IdleCall]
    /\ reply = NoReply
    /\ env \in Environments
    /\ assets = NoAssets

NextHealth ==
    \/ \E settings \in HealthInputs : NewApp(0, settings, 1)
    \/ \E settings \in HealthTenantInputs : NewApp(1, settings, 1)
    \/ Dispose
    \/ \E pingFails \in BOOLEAN : Health(pingFails)
    \/ HandleAppSettings("GET", [orgId |-> "", pc |-> [OrgID |-> 1], token |-> <<>>])

\* Instantiations under every environment, followed by health checks and
\* reads of the settings endpoint
HealthSpec == InitHealth /\ [][NextHealth]_vars

\* Blobs handed to jsonEqual: empty and white space, objects with members
\* reordered and padded, with a repeated key, and texts that do not parse
BlobInputs ==
    {<<>>, <<WS>>, <<WS, WS>>, <<LB, RB>>, <<WS, LB, WS, RB>>, DocA, DocAReordered, DocB,
     <<LB, Member("bucketName", Str("b2")), Member("apiUrl", Str("u1")),
       Member("bucketName", Str("b1")), RB>>,
     DocBad, <<WS>> \o DocBad \o <<WS>>, <<RB>>, <<LB, WS>>}

\* String maps handed to mapsEqual: every map on the two secret keys with
\* empty and non-empty values; nil is the empty map
MapInputs ==
    {EmptyMap}
        \cup {k :> v : k \in {"apiKey", "gcsServiceAccount"}, v \in {"", "s1", "s2"}}
        \cup {("apiKey" :> v) @@ ("gcsServiceAccount" :> w) :
                 v \in {"", "s1", "s2"}, w \in {"", "s1", "s2"}}

\* jsonEqual is called on two blobs.
CompareJSON(a, b) ==
    /\ reply' = [handled |-> TRUE, fn |-> "jsonEqual", a |-> a, b |-> b,
                 result |-> jsonEqual(a, b)]
    /\ UNCHANGED <<app_settings, last, calls, env, assets>>

\* mapsEqual is called on two maps.
CompareMaps(a, b) ==
    /\ reply' = [handled |-> TRUE, fn |-> "mapsEqual", a |-> a, b |-> b,
                 result |-> mapsEqual(a, b)]
    /\ UNCHANGED <<app_settings, last, calls, env, assets>>

\* Blobs handed to canonicalizeJSON: those of jsonEqual and objects whose
\* maxUploadSizeMb is written 0 and -0
CanonInputs ==
    BlobInputs \cup {<<LB, Member("maxUploadSizeMb", Num(0)), RB>>,
                     <<LB, Member("maxUploadSizeMb", NegZero), RB>>}

\* canonicalizeJSON is called on two blobs and on its own results, and
\* jsonEqual on the blobs.
Canonicalize(a, b) ==
    /\ reply' = [handled |-> TRUE, fn |-> "canonicalizeJSON", a |-> a, b |-> b,
                 result |-> <<canonicalizeJSON(a), canonicalizeJSON(b)>>,
                 again |-> <<canonicalizeJSON(canonicalizeJSON(a)),
                             canonicalizeJSON(canonicalizeJSON(b))>>,
                 equal |-> jsonEqual(a, b)]
    /\ UNCHANGED <<app_settings, last, calls, env, assets>>

NextEqual ==
    \/ \E a \in BlobInputs, b \in BlobInputs : CompareJSON(a, b)
    \/ \E a \in CanonInputs, b \in CanonInputs : Canonicalize(a, b)
    \/ \E a \in MapInputs, b \in MapInputs : CompareMaps(a, b)

\* The comparison helpers applied to every pair of inputs
EqualSpec == Init /\ [][NextEqual]_vars

\* Candidates of the saves whose row is read back: JSON that is empty,
\* white space, padded and reordered, or broken; no secrets, an empty
\* secret, two secrets; no timestamp or one
RoundTripInputs ==
    {Settings(j, m, u) :
        j \in {<<>>, <<WS>>, DocAReordered, DocBad},
        m \in {EmptyMap, "apiKey" :> "", ("apiKey" :> "s1") @@ ("gcsServiceAccount" :> "g1")},
        u \in {0, 2}}

NextRoundTrip ==
    \/ \E candidate \in RoundTripInputs :
          \E now \in NowChoices(candidate) : StoreSave(1, candidate, now)
    \/ Dispose

\* savePersistedAppSettings called directly, its row read back by
\* loadPersistedAppSettings
RoundTripSpec == Init /\ [][NextRoundTrip]_vars

\* Largest timestamp of the payloads of the restarts
MaxRestartTime == 2

\* Payloads of the restarts: no JSON, white space, {}, two configurations,
\* a broken document and one whose bucketName is a number; no secrets,
\* two secrets, an empty secret
RestartInputs ==
    {Settings(j, m, u) :
        j \in {<<>>, <<WS>>, <<LB, RB>>, DocA, DocB, DocBad,
               <<LB, Member("bucketName", Num(1)), RB>>},
        m \in {EmptyMap, ("apiKey" :> "s1") @@ ("gcsServiceAccount" :> "g1"), "apiKey" :> ""},
        u \in 0..MaxRestartTime}

NextRestart ==
    \/ \E orgID \in Orgs, settings \in RestartInputs : NewApp(orgID, settings, 1)
    \/ Dispose

\* The host restarts the instance of tenant 1 and the instance without
\* tenant, with payloads parseConfig accepts and payloads it rejects
RestartSpec == Init /\ [][NextRestart]_vars

\* The row the previous version of savePersistedAppSettings inserts: the
\* JSON bytes as given, the secret map, the timestamp; it names no
\* provisioned column, so these are NULL.
LegacyRow(orgID, settings, now) ==
    LET updated == IF settings.Updated = 0 THEN now ELSE settings.Updated
    IN  [org_id |-> orgID,
         json_data |-> settings.JSONData,
         secure_json_data |->
            IF MapLen(settings.DecryptedSecureJSONData) > 0
            THEN NullString(TRUE, encodeStringMap(settings.DecryptedSecureJSONData))
            ELSE SQLNull,
         updated_at |-> FormatTime(updated),
         provisioned_json_data |-> SQLNull,
         provisioned_secure_json_data |-> SQLNull,
         provisioned_updated_at |-> SQLNull]

\* The table is empty or holds tenant 1's row as the previous version of
\* the store wrote it.
InitLegacy ==
    /\ app_settings \in
          {{}} \cup {{LegacyRow(1, Settings(j, m, 1), 1)} :
                        j \in {<<>>, DocA}, m \in {EmptyMap, "apiKey" :> "s1"}}
    /\ last = NoInstance
    /\ calls = [t \in Tenants |-> IdleCall]
    /\ reply = NoReply
    /\ env = DefaultEnv
    /\ assets = NoAssets

NextLegacy ==
    \/ \E j \in {<<>>, DocA, DocB}, m \in {EmptyMap, "apiKey" :> "s2"}, u \in 0..2 :
          NewApp(1, Settings(j, m, u), 3)
    \/ Dispose

\* Instantiations of tenant 1 on a database whose row has no provisioned
\* baseline yet
LegacySpec == InitLegacy /\ [][NextLegacy]_vars

\* A POST to /assets/<id>/files handled by the instance, with the calls of
\* the upload that fail.
HandleAssetFileUpload(r, assetID, body, fault) ==
    /\ Serving
    /\ resolveOrgIDFromRequest(r).status = 200
    /\ \E answer \in {handleAssetFileUpload(App, env, assets,
                                           resolveOrgIDFromRequest(r).orgID,
                                           assetID, body, fault)} :
          /\ \A f \in answer.store.files : f.id <= MaxFiles + 1
          /\ \A k \in answer.store.objects : k.unique <= MaxObjects
          /\ assets' = answer.store
          /\ reply' = [handled |-> TRUE, handler |-> "handleAssetFileUpload",
                       method |-> "POST", request |-> r, status |-> answer.status,
                       body |-> answer.body, ops |-> answer.ops, fault |-> fault]
    /\ UNCHANGED <<app_settings, last, calls, env>>

\* The requests are tenant 1's as the host forwards them.
NextUpload ==
  \E TenantRequest \in {[orgId |-> "", pc |-> [OrgID |-> 1], token |-> <<>>]} :
    \/ NewApp(1, Settings(DocA, ("apiKey" :> "s1") @@ ("gcsServiceAccount" :> "g1"), 1), 1)
    \/ Dispose
    \/ HandleAssetsCollection("POST", TenantRequest, [kind |-> "json", Title |-> "t1"])
    \/ \E assetID \in 1..2, fault \in UploadFaults,
          body \in {[kind |-> "multipart", file |-> f] : f \in {"missing", "empty", "ok"}} :
          HandleAssetFileUpload(TenantRequest, assetID, body, fault)
    \/ \E path \in {<<"1">>, <<"1", "files", "1">>, <<"1", "files", "2">>} :
          HandleAssetResource("DELETE", TenantRequest, path, [kind |-> "json", Title |-> ""])

\* An instance with storage serving uploads whose storage and database
\* calls can fail, and deletions of attachments and assets
UploadSpec == Init /\ [][NextUpload]_vars

(***************************************************************************)
(* Properties.  last.before is the table the instantiation started from;   *)
(* Before and After are the records loadPersistedAppSettings yields for    *)
(* the instantiation's tenant from the table before and after it.          *)
(***************************************************************************)
Before == loadPersistedAppSettings(last.before, last.org).settings

After == loadPersistedAppSettings(app_settings, last.org).settings

\* The tenant's record in a table, as loadPersistedAppSettings yields it
Persisted(table, orgID) == loadPersistedAppSettings(table, orgID).settings

\* The tenant's raw row; only used where RowsOf is not empty
RowOf(table, orgID) == CHOOSE r \in RowsOf(table, orgID) : TRUE

Instantiated == last.running /\ last.org # 0

HasBaseline(p) ==
    Len(p.ProvisionedJSONData) > 0 \/ MapLen(p.ProvisionedSecureJSONData) > 0

IsReplay(settings, p) ==
    /\ HasBaseline(p)
    /\ jsonEqual(settings.JSONData, p.ProvisionedJSONData)
    /\ mapsEqual(settings.DecryptedSecureJSONData, p.ProvisionedSecureJSONData)

\* C1: an instantiation whose payload is jsonEqual / mapsEqual to the stored
\* non-empty provisioned baseline leaves the tenant's row (all six fields,
\* so updated_at too) exactly as it was, whatever the incoming timestamp is.
C1_IdempotentReplay ==
    Instantiated =>
        \A p \in {Before} :
            (p # Nil /\ IsReplay(last.settings, p))
                => (app_settings = last.before /\ ~last.wrote)

\* C1 witness: a replay of the baseline with a timestamp strictly newer than
\* the stored updated_at, after a user edit made the live record differ.
C1_Witness ==
    /\ Instantiated
    /\ \E p \in {Before} :
          /\ p # Nil
          /\ IsReplay(last.settings, p)
          /\ last.settings.Updated > p.UpdatedAt
          /\ ~jsonEqual(p.JSONData, p.ProvisionedJSONData)
    /\ app_settings = last.before

\* C2: when mergeAppInstanceSettings merges a payload that omits secret k or
\* carries it empty (newer timestamp, other content changed) into a persisted
\* record holding a non-empty k, the merged settings keep the persisted value
\* of k, both as effective configuration and in the row written back.
C2_SecretStickyOnMerge ==
    (Instantiated /\ last.branch = "update") =>
        \A p \in {Before}, q \in {After} :
            \A k \in DOMAIN p.SecureJSONData :
                (p.SecureJSONData[k] # ""
                 /\ MapGet(last.settings.DecryptedSecureJSONData, k) = "")
                   => /\ MapGet(last.effective.DecryptedSecureJSONData, k)
                           = p.SecureJSONData[k]
                      /\ last.wrote => MapGet(q.SecureJSONData, k) = p.SecureJSONData[k]

\* C2 witness: an accepted update that omitted a stored secret and changed
\* the JSON, written back with the secret retained.
C2_Witness ==
    /\ Instantiated /\ last.branch = "update" /\ last.wrote
    /\ \E p \in {Before}, q \in {After} :
          /\ last.settings.Updated > p.UpdatedAt
          /\ ~jsonEqual(last.settings.JSONData, p.JSONData)
          /\ \E k \in DOMAIN p.SecureJSONData :
                /\ p.SecureJSONData[k] # ""
                /\ k \notin DOMAIN last.settings.DecryptedSecureJSONData
                /\ MapGet(q.SecureJSONData, k) = p.SecureJSONData[k]

\* C3: with every load and save succeeding, a secret key that holds a
\* non-empty value in a tenant's row holds a non-empty value after every
\* later step (it is kept or replaced by another non-empty value).
C3_SecretsNeverDowngraded ==
    [][\/ app_settings' = app_settings
       \/ \A o \in Orgs :
            \A p \in {Persisted(app_settings, o)}, q \in {Persisted(app_settings', o)} :
               p # Nil
                 => /\ q # Nil
                    /\ \A k \in DOMAIN p.SecureJSONData :
                          p.SecureJSONData[k] # "" => MapGet(q.SecureJSONData, k) # ""]_vars

\* C3 witness: an accepted update replaced a stored non-empty secret by
\* another non-empty value while a second stored secret, omitted by the
\* payload, stayed.
C3_Witness ==
    /\ Instantiated /\ last.branch = "update" /\ last.wrote
    /\ \E p \in {Before}, q \in {After} :
          /\ \E k \in DOMAIN p.SecureJSONData :
                /\ p.SecureJSONData[k] # ""
                /\ MapGet(q.SecureJSONData, k) \notin {"", p.SecureJSONData[k]}
          /\ \E k \in DOMAIN p.SecureJSONData :
                /\ p.SecureJSONData[k] # ""
                /\ k \notin DOMAIN last.settings.DecryptedSecureJSONData
                /\ MapGet(q.SecureJSONData, k) = p.SecureJSONData[k]

\* C4: when the tenant's row loads and the incoming timestamp is not
\* strictly after the stored updated_at (equal, older or zero), the row is
\* not modified, whatever the payload, and the effective configuration is
\* the persisted record.
C4_StaleTimestampNeverWrites ==
    Instantiated =>
        \A p \in {Before} :
            (p # Nil /\ ~(last.settings.Updated > p.UpdatedAt))
                => /\ app_settings = last.before
                   /\ ~last.wrote
                   /\ last.effective = persistedToAppInstanceSettings(p)

\* C4 witness: a payload with the stored timestamp and other JSON and
\* secrets than the persisted ones was answered from the persisted record.
C4_Witness ==
    /\ Instantiated
    /\ \E p \in {Before} :
          /\ p # Nil
          /\ last.settings.Updated = p.UpdatedAt
          /\ JSONValid(last.settings.JSONData)
          /\ ~jsonEqual(last.settings.JSONData, p.JSONData)
          /\ ~mapsEqual(last.settings.DecryptedSecureJSONData, p.SecureJSONData)
          /\ ~IsReplay(last.settings, p)
          /\ last.effective = persistedToAppInstanceSettings(p)
    /\ app_settings = last.before

\* C5: with loads succeeding, the stored updated_at of a tenant never
\* decreases; a first write stores a non-zero instant and every later write
\* stores a timestamp strictly after the previous one.
C5_UpdatedAtMonotonic ==
    [][\/ app_settings' = app_settings
       \/ \A o \in Orgs :
            \A p \in {Persisted(app_settings, o)}, q \in {Persisted(app_settings', o)} :
               /\ (p = Nil /\ q # Nil) => q.UpdatedAt > 0
               /\ p # Nil
                     => /\ q # Nil
                        /\ q.UpdatedAt >= p.UpdatedAt
                        /\ RowsOf(app_settings', o) # RowsOf(app_settings, o)
                              => q.UpdatedAt > p.UpdatedAt]_vars

\* C5 witness: a row still holding its first write was overwritten by an
\* accepted update and now stores the update's strictly later timestamp.
C5_Witness ==
    /\ Instantiated /\ last.branch = "update" /\ last.wrote
    /\ \E p \in {Before}, q \in {After} :
          /\ p.ProvisionedUpdatedAt = p.UpdatedAt
          /\ q.UpdatedAt = last.settings.Updated
          /\ q.UpdatedAt > p.UpdatedAt

\* C6: once a tenant's row holds a non-empty provisioned baseline, no later
\* step changes provisioned_json_data, provisioned_secure_json_data or
\* provisioned_updated_at of that row.
C6_BaselineWriteOnce ==
    [][\/ app_settings' = app_settings
       \/ \A o \in Orgs :
            (RowsOf(app_settings, o) # {} /\ HasBaseline(Persisted(app_settings, o)))
              => /\ RowsOf(app_settings', o) # {}
                 /\ \A r \in {RowOf(app_settings, o)}, t \in {RowOf(app_settings', o)} :
                       /\ t.provisioned_json_data = r.provisioned_json_data
                       /\ t.provisioned_secure_json_data = r.provisioned_secure_json_data
                       /\ t.provisioned_updated_at = r.provisioned_updated_at]_vars

\* C6 witness: an accepted update changed the live JSON, secrets and
\* updated_at of a row while its baseline kept the first write's content.
C6_Witness ==
    /\ Instantiated /\ last.branch = "update" /\ last.wrote
    /\ \E p \in {Before}, q \in {After} :
          /\ HasBaseline(p)
          /\ q.JSONData # p.JSONData
          /\ q.SecureJSONData # p.SecureJSONData
          /\ q.ProvisionedJSONData = p.ProvisionedJSONData
          /\ q.ProvisionedJSONData # q.JSONData
          /\ q.ProvisionedSecureJSONData # q.SecureJSONData
          /\ q.ProvisionedUpdatedAt < q.UpdatedAt

\* The tenant's row holds the payload as live record and as baseline
FirstRowHolds(settings, q) ==
    /\ jsonEqual(q.JSONData, settings.JSONData)
    /\ q.JSONData = canonicalizeJSON(settings.JSONData)
    /\ q.SecureJSONData = settings.DecryptedSecureJSONData
    /\ q.ProvisionedJSONData = q.JSONData
    /\ q.ProvisionedSecureJSONData = q.SecureJSONData
    /\ q.ProvisionedUpdatedAt = q.UpdatedAt

GenuineUpdate(settings, p) ==
    /\ hasNonEmptySettings(settings)
    /\ ~isProvisionedFallback(settings, p)
    /\ settings.Updated > p.UpdatedAt
    /\ ~(/\ jsonEqual(settings.JSONData, p.JSONData)
          /\ mapsEqual(settings.DecryptedSecureJSONData, p.SecureJSONData))

BaselineSecretsResent(settings, p) ==
    /\ MapLen(p.SecureJSONData) > 0
    /\ MapLen(settings.DecryptedSecureJSONData) > 0
    /\ MapLen(p.ProvisionedSecureJSONData) > 0
    /\ mapsEqual(settings.DecryptedSecureJSONData, p.ProvisionedSecureJSONData)
    /\ ~mapsEqual(p.SecureJSONData, p.ProvisionedSecureJSONData)

\* C9 as claimed: in an accepted update every secret the payload carries
\* with a non-empty (here even: non-blank) value is the merged value of that
\* key, whatever the persisted and the baseline secrets are.
C9_Original ==
    (Instantiated /\ last.branch = "update") =>
        \A k \in DOMAIN last.settings.DecryptedSecureJSONData :
            TrimSpaceStr(last.settings.DecryptedSecureJSONData[k]) # ""
              => /\ MapGet(last.effective.DecryptedSecureJSONData, k)
                      = last.settings.DecryptedSecureJSONData[k]
                 /\ last.wrote
                      => MapGet(After.SecureJSONData, k)
                           = last.settings.DecryptedSecureJSONData[k]

\* C9 amended: that holds for non-blank values unless the payload's secret
\* map equals the baseline's secret map while the persisted secrets differ
\* from the baseline; then the merged secrets are the persisted map, whole.
C9_IncomingSecretWins ==
    (Instantiated /\ last.branch = "update") =>
        \A p \in {Before} :
            IF BaselineSecretsResent(last.settings, p)
            THEN /\ last.effective.DecryptedSecureJSONData = p.SecureJSONData
                 /\ last.wrote => After.SecureJSONData = p.SecureJSONData
            ELSE \A k \in DOMAIN last.settings.DecryptedSecureJSONData :
                    TrimSpaceStr(last.settings.DecryptedSecureJSONData[k]) # ""
                      => /\ MapGet(last.effective.DecryptedSecureJSONData, k)
                              = last.settings.DecryptedSecureJSONData[k]
                         /\ last.wrote
                              => MapGet(After.SecureJSONData, k)
                                   = last.settings.DecryptedSecureJSONData[k]

\* C9 witness: an accepted update carried a new non-empty value for a key
\* the row already held, and the row now holds the new value.
C9_Witness ==
    /\ Instantiated /\ last.branch = "update" /\ last.wrote
    /\ \E p \in {Before} :
          /\ ~BaselineSecretsResent(last.settings, p)
          /\ \E k \in DOMAIN last.settings.DecryptedSecureJSONData :
                /\ TrimSpaceStr(last.settings.DecryptedSecureJSONData[k]) # ""
                /\ MapGet(p.SecureJSONData, k) \notin
                      {"", last.settings.DecryptedSecureJSONData[k]}
                /\ MapGet(After.SecureJSONData, k)
                      = last.settings.DecryptedSecureJSONData[k]

C10_SaveWritesCandidateSecrets ==
    (Instantiated /\ last.wrote) =>
        \A p \in {Before}, q \in {After} :
            /\ q # Nil
            /\ q.SecureJSONData = last.effective.DecryptedSecureJSONData
            /\ (p # Nil /\ last.branch = "update")
                  => \A k \in DOMAIN p.SecureJSONData :
                        p.SecureJSONData[k] # "" => MapGet(q.SecureJSONData, k) # ""

\* C10, the preserving case: NewApp saved a merged candidate; the payload had omitted a
\* secret of the previous record and carried another, and the written row
\* holds both, exactly as the candidate does.
C10_Witness ==
    /\ Instantiated /\ last.branch = "update" /\ last.wrote
    /\ \E p \in {Before}, q \in {After} :
          /\ q.SecureJSONData = last.effective.DecryptedSecureJSONData
          /\ q.SecureJSONData # last.settings.DecryptedSecureJSONData
          /\ MapLen(last.settings.DecryptedSecureJSONData) > 0
          /\ \E k \in DOMAIN p.SecureJSONData :
                /\ p.SecureJSONData[k] # ""
                /\ k \notin DOMAIN last.settings.DecryptedSecureJSONData
                /\ MapGet(q.SecureJSONData, k) = p.SecureJSONData[k]

\* An entirely empty payload: no JSON bytes or {}, no secrets, no timestamp
EmptyPayload(settings) ==
    /\ settings.JSONData \in {<<>>, <<LB, RB>>}
    /\ MapLen(settings.DecryptedSecureJSONData) = 0
    /\ settings.Updated = 0

\* C11: an instantiation with an entirely empty payload for a tenant that
\* has a row writes nothing, succeeds, and its effective settings are the
\* JSON and all the secrets of the persisted live record.
C11_EmptyPayloadNoOp ==
    Instantiated =>
        \A p \in {Before} :
            (p # Nil /\ EmptyPayload(last.settings))
                => /\ app_settings = last.before
                   /\ ~last.wrote /\ ~last.err
                   /\ last.effective.JSONData = p.JSONData
                   /\ last.effective.DecryptedSecureJSONData = p.SecureJSONData

\* C11 witness: the payload {} without secrets and timestamp met a row with
\* JSON and two secrets, which the effective settings carry.
C11_Witness ==
    /\ Instantiated /\ EmptyPayload(last.settings)
    /\ last.settings.JSONData = <<LB, RB>>
    /\ app_settings = last.before
    /\ \E p \in {Before} :
          /\ p # Nil
          /\ Len(p.JSONData) > 2
          /\ MapLen(p.SecureJSONData) = 2
          /\ last.effective.JSONData = p.JSONData
          /\ last.effective.DecryptedSecureJSONData = p.SecureJSONData

\* The live record differs from the provisioned baseline: a user edit was
\* accepted after the first persist.
UserEdited(p) ==
    /\ HasBaseline(p)
    /\ ~(/\ jsonEqual(p.JSONData, p.ProvisionedJSONData)
          /\ mapsEqual(p.SecureJSONData, p.ProvisionedSecureJSONData))

\* C12: when a row exists and NewApp decides not to write back, the
\* effective settings are the JSON, the secrets and the updated_at of the
\* persisted live record, whatever the payload holds; a replay of the
\* baseline after an accepted user edit is such a case, at any timestamp.
C12_UserEditWins ==
    Instantiated =>
        \A p \in {Before} :
            p # Nil =>
                /\ last.branch = "persisted"
                      => /\ last.effective = Settings(p.JSONData, p.SecureJSONData,
                                                      p.UpdatedAt)
                         /\ app_settings = last.before
                /\ (UserEdited(p) /\ IsReplay(last.settings, p))
                      => /\ last.branch = "persisted"
                         /\ last.effective.JSONData = p.JSONData

\* C12 witness: after a user edit of the JSON, the host resent the baseline
\* with a timestamp newer than the stored one; the effective JSON is the
\* user's edit, not the payload's.
C12_Witness ==
    /\ Instantiated /\ last.branch = "persisted"
    /\ \E p \in {Before} :
          /\ p # Nil /\ UserEdited(p) /\ IsReplay(last.settings, p)
          /\ last.settings.Updated > p.UpdatedAt
          /\ ~jsonEqual(last.settings.JSONData, p.JSONData)
          /\ last.effective.JSONData = p.JSONData
          /\ app_settings = last.before

\* C13: the table holds at most one row per tenant id, and only rows of
\* tenants that were instantiated; a save for a tenant whose row was loaded
\* leaves exactly one row of that tenant, holding the saved settings.
C13_OneRowPerTenant ==
    /\ \A r \in app_settings : r.org_id \in Tenants
    /\ \A t \in Tenants :
          /\ Cardinality(RowsOf(app_settings, t)) <= 1
          /\ (calls[t].pc = "done" /\ calls[t].wrote)
                => /\ Cardinality(RowsOf(app_settings, t)) = 1
                   /\ \A q \in {Persisted(app_settings, t)} :
                         /\ q # Nil
                         /\ q.SecureJSONData = calls[t].effective.DecryptedSecureJSONData
                         /\ jsonEqual(q.JSONData, calls[t].effective.JSONData)

\* C13 witness: both tenants have a row, and tenant 1's accepted update has
\* just replaced the row it had loaded: the table holds two rows.
C13_Witness ==
    /\ Cardinality(app_settings) = 2
    /\ \A t \in Tenants : Cardinality(RowsOf(app_settings, t)) = 1
    /\ calls[1].pc = "done" /\ calls[1].wrote
    /\ calls[1].persisted # Nil
    /\ calls[1].branch = "update"

\* A step of tenant t's instantiation leaves the rows of every other tenant
\* as they are.
OthersUntouched ==
    \A t \in Tenants :
        calls'[t] # calls[t]
            => \A u \in Tenants \ {t} :
                  RowsOf(app_settings', u) = RowsOf(app_settings, u)

\* Tenant t's instantiation is as if run alone: the record it loaded is the
\* one of its own row, and after its save its row and effective settings
\* are those NewApp gives on a table holding only that row.
AsIfAlone ==
    \A t \in Tenants :
        \A c \in {calls[t]} :
            /\ c.pc = "loaded"
                  => c.persisted = Persisted(RowsOf(app_settings, t), t)
            /\ c.pc = "done"
                  => /\ RowsOf(app_settings, t) = c.alone
                     /\ c.effective = Reconcile(t, c.settings, c.persisted).effective
                     /\ ~c.wrote => c.persisted = Persisted(RowsOf(app_settings, t), t)

\* C14: for every interleaving of the loads and saves of different tenants'
\* instantiations, a step of one tenant's instantiation never changes
\* another tenant's row, the record it loads is its own tenant's, and the
\* row and effective settings it ends with are those of a run alone.
C14_TenantIsolation == []AsIfAlone /\ [][OthersUntouched]_vars

\* C14 witness: tenant 2 loaded while tenant 1 was between its load and its
\* save; both then saved, and each row is the one of a run alone.
C14_Witness ==
    /\ \A t \in Tenants :
          /\ calls[t].pc = "done" /\ calls[t].wrote
          /\ RowsOf(app_settings, t) = calls[t].alone
    /\ 1 \in calls[2].during
    /\ RowsOf(app_settings, 1) # {} /\ RowsOf(app_settings, 2) # {}
    /\ \A r1 \in RowsOf(app_settings, 1), r2 \in RowsOf(app_settings, 2) :
          r1.json_data # r2.json_data

\* Division of a four-digit number by a divisor 0 < d <= LimbBase:
\* <<quotient digits, remainder>>
LimbsDiv(l, d) ==
    LET c4 == l[4]
        c3 == (c4 % d) * LimbBase + l[3]
        c2 == (c3 % d) * LimbBase + l[2]
        c1 == (c2 % d) * LimbBase + l[1]
    IN  <<(<<c1 \div d, c2 \div d, c3 \div d, c4 \div d>>), c1 % d>>

\* a <= b on four-digit numbers
LimbsLE(a, b) ==
    \/ a = b
    \/ \E i \in 1..4 : a[i] < b[i] /\ \A j \in (i + 1)..4 : a[j] = b[j]

\* 1,048,576 and 5,368,709,120 = 5 * 2^30
MinUploadBytes == <<0, 32, 0, 0>>
MaxUploadBytes == <<0, 0, 5, 0>>

\* The maxUploadSizeMb of the settings' JSON, 0 when it has none
ConfiguredSizeMB(settings) ==
    IF Len(settings.JSONData) > 0 /\ JSONValid(settings.JSONData)
    THEN RawInt(JSONValue(settings.JSONData), "maxUploadSizeMb") ELSE 0

\* C15: for every configured maxUploadSizeMb m the instance's
\* MaxUploadSizeMB is min(m, 5120) when m > 0 and 25 when m <= 0 or the
\* member is absent; MaxUploadSizeBytes divided twice by 1024 gives
\* MaxUploadSizeMB without remainder, and lies in
\* [1,048,576, 5,368,709,120].
C15_UploadSizeClamped ==
    (last.running /\ ~last.err) =>
        \A m \in {ConfiguredSizeMB(last.effective)}, cfg \in {last.config} :
            /\ cfg.MaxUploadSizeMB =
                  (IF m <= 0 THEN 25 ELSE IF m > 5120 THEN 5120 ELSE m)
            /\ \A k \in {LimbsDiv(cfg.MaxUploadSizeBytes, 1024)} :
                  /\ k[2] = 0
                  /\ LimbsDiv(k[1], 1024) = <<Int64Limbs(cfg.MaxUploadSizeMB), 0>>
            /\ LimbsLE(MinUploadBytes, cfg.MaxUploadSizeBytes)
            /\ LimbsLE(cfg.MaxUploadSizeBytes, MaxUploadBytes)
            /\ (m <= 0) => cfg.MaxUploadSizeBytes = Int64Limbs(26214400)

\* C15 witness: a configured size above the limit was resolved to 5120 MB
\* and 5,368,709,120 bytes.
C15_Witness ==
    /\ last.running /\ ~last.err
    /\ ConfiguredSizeMB(last.effective) > 5120
    /\ last.config.MaxUploadSizeMB = 5120
    /\ last.config.MaxUploadSizeBytes = MaxUploadBytes

\* The load of the instantiation failed: the query failed, or the tenant's
\* row could not be decoded.
LoadFailed == last.running /\ last.fault # "initDatabase" /\ last.loadErr

\* The load failed because the secret map of the tenant's row is not
\* decodable.
SecretDecodeFailed ==
    /\ LoadFailed /\ last.fault = "none"
    /\ \E row \in RowsOf(last.before, last.org) :
          /\ row.secure_json_data.Valid
          /\ ~StringMapValid(row.secure_json_data.String)

\* C16 as claimed: when initDatabase fails or the load of the tenant's row
\* fails, NewApp (given settings that parseConfig accepts) returns an
\* instance whose effective settings are the incoming ones.
C16_Original ==
    (/\ last.running
     /\ last.fault = "initDatabase" \/ LoadFailed
     /\ ~parseConfig(last.settings).err)
        => /\ ~last.err
           /\ last.effective = last.settings
           /\ last.config = parseConfig(last.settings).cfg

\* C16, the part the code keeps: a failed load alone does not fail the
\* instantiation, whose effective settings are then the incoming ones.
C16_LoadFailureDegrades ==
    (LoadFailed /\ ~parseConfig(last.settings).err)
        => /\ ~last.err
           /\ last.effective = last.settings
           /\ last.config = parseConfig(last.settings).cfg

\* C17: when the statement of savePersistedAppSettings fails, NewApp still
\* returns an instance, configured from the effective settings that
\* reconciliation chose (the merge on an update), and the table is exactly
\* what it was before the instantiation.
C17_SaveFailureNonFatal ==
    (/\ last.running
     /\ last.fault = "save"
     /\ last.branch \in {"first", "update"}
     /\ ~(Len(last.effective.JSONData) > 0 /\ RawDecodeFails(last.effective.JSONData)))
        => /\ ~last.err
           /\ last.config # Nil
           /\ last.config = parseConfig(last.effective).cfg
           /\ last.effective =
                 mergeAppInstanceSettings(last.settings,
                     (IF last.branch = "update" THEN Before ELSE Nil))
           /\ app_settings = last.before

\* C17 witness: the save of an accepted update failed; the instance holds
\* the merged configuration (the payload's JSON, the persisted secret) and
\* the row is the one from before.
C17_Witness ==
    /\ last.running /\ last.fault = "save" /\ last.branch = "update"
    /\ ~last.err /\ last.config # Nil
    /\ app_settings = last.before
    /\ \E p \in {Before} :
          /\ p # Nil
          /\ ~jsonEqual(p.JSONData, last.settings.JSONData)
          /\ last.effective.JSONData = last.settings.JSONData
          /\ MapLen(last.settings.DecryptedSecureJSONData) = 0
          /\ MapGet(p.SecureJSONData, "apiKey") # ""
          /\ last.config.APIKey = MapGet(p.SecureJSONData, "apiKey")

\* C18 as claimed: when the stored secret map cannot be decoded, NewApp
\* (given settings that parseConfig accepts) succeeds and its effective settings are a previously persisted record
\* or empty defaults, not the payload.  The row's JSON column is still the
\* last JSON persisted, so the effective JSON is that or empty.
C18_Original ==
    (SecretDecodeFailed /\ ~parseConfig(last.settings).err)
        => /\ ~last.err
           /\ \A row \in RowsOf(last.before, last.org) :
                 last.effective.JSONData \in {<<>>, row.json_data}

TrustedOrg(r) ==
    IF r.pc # Nil THEN <<r.pc.OrgID, TRUE>> ELSE getOrgFromRequest(r)

\* C20: a request whose orgId parameter names a tenant id other than the
\* trusted source's is answered 403; a request is resolved only when the
\* trusted source yields an id, to that id, and then the orgId parameter
\* is absent or names the same id.
C20_TenantMismatchRejected ==
    reply.handled =>
        \A r \in {reply.request}, res \in {reply.result} :
        \A q \in {ParseInt(TrimSpaceStr(r.orgId))}, t \in {TrustedOrg(r)} :
            /\ (q[2] /\ t[2] /\ q[1] # t[1]) => res.status = 403
            /\ res.status \in {200, 400, 403}
            /\ res.status = 200
                  => /\ t[2]
                     /\ res.orgID = t[1]
                     /\ r.orgId \in BlankStrings \/ (q[2] /\ q[1] = t[1])
            /\ ~t[2] => res.status # 200

\* C20 witness: the plugin context is of org 1, the token too, and the
\* query asks for org 2: answered 403.
C20_Witness ==
    /\ reply.handled
    /\ reply.request.orgId = "2"
    /\ reply.request.pc = [OrgID |-> 1]
    /\ getOrgFromRequest(reply.request) = <<1, TRUE>>
    /\ reply.result.status = 403

\* The texts of the "org:" entries of an aud claim, in order: of the string
\* itself, or of the strings of the list
AudOrgTexts(aud) ==
    IF IsClaimStr(aud) THEN (IF aud.pre = "org:" THEN <<aud.rest>> ELSE <<>>)
    ELSE IF "list" \in DOMAIN aud
         THEN LET isOrg(x) == IsClaimStr(x) /\ x.pre = "org:"
                  orgs == SelectSeq(aud.list, isOrg)
              IN  [i \in 1..Len(orgs) |-> orgs[i].rest]
    ELSE <<>>

\* The id a well-formed token stands for: the first "org:" entry of aud
\* decides; without one, a namespace "org-<id>" does; <<orgID, ok>>
TokenOrg(claims) ==
    LET texts == IF "aud" \in DOMAIN claims THEN AudOrgTexts(claims["aud"]) ELSE <<>>
    IN  IF Len(texts) > 0 THEN ParseInt(texts[1])
        ELSE IF /\ "namespace" \in DOMAIN claims
                /\ IsClaimStr(claims["namespace"])
                /\ claims["namespace"].pre = "org-"
             THEN ParseInt(claims["namespace"].rest)
        ELSE <<0, FALSE>>

\* The request carries a token with three parts and a decodable payload
WellFormedToken(r) == Len(r.token) = 3 /\ r.token[2].b64 /\ r.token[2].json

\* C21: with a plugin context attached the outcome is the same whatever
\* the token is, and a resolved id is the plugin context's; without one a
\* resolved id is the token's (aud "org:<id>", string or list, before
\* namespace "org-<id>"); when neither yields an id the request fails with
\* no id.  A request without an orgId parameter is resolved whenever its
\* source yields an id.
C21_SourcePreference ==
    reply.handled =>
        \A r \in {reply.request}, res \in {reply.result} :
            /\ r.pc # Nil
                  => /\ \A t \in TokenInputs :
                           resolveOrgIDFromRequest([r EXCEPT !.token = t]) = res
                     /\ res.status = 200 => res.orgID = r.pc.OrgID
                     /\ r.orgId \in BlankStrings => res.status = 200
            /\ r.pc = Nil
                  => \A t \in {IF WellFormedToken(r) THEN TokenOrg(r.token[2].claims)
                                ELSE <<0, FALSE>>} :
                        /\ res.status = 200 => (t[2] /\ res.orgID = t[1])
                        /\ ~t[2] => (res.status \in {400, 403} /\ res.orgID = 0)
                        /\ (t[2] /\ r.orgId \in BlankStrings) => res.status = 200

\* C21 witness: the plugin context is of org 1 while the token's aud says
\* org 2; the request is resolved to org 1.
C21_Witness ==
    /\ reply.handled
    /\ reply.request.pc = [OrgID |-> 1]
    /\ reply.request.orgId = ""
    /\ getOrgFromRequest(reply.request) = <<2, TRUE>>
    /\ reply.result = [status |-> 200, orgID |-> 1]

\* The tenant of request r cannot be resolved: its orgId parameter is no
\* integer, no trusted source yields an id, or the parameter names another
\* tenant than the trusted source.
ResolutionFails(r) ==
    \E q \in {ParseInt(TrimSpaceStr(r.orgId))}, t \in {TrustedOrg(r)} :
        \/ TrimSpaceStr(r.orgId) # "" /\ ~q[2]
        \/ ~t[2]
        \/ q[2] /\ t[2] /\ q[1] # t[1]

\* The step is the handling of a resource request
RequestHandled == reply' # reply /\ reply'.handled /\ "request" \in DOMAIN reply'

\* C22: a resource request whose tenant resolution fails (invalid orgId,
\* no trusted source, mismatch) is answered with a 4xx status, its handler
\* runs no store operation, and the settings table, the asset rows, the
\* attachment rows and the stored objects are what they were before it.
C22_ResolutionFailureTouchesNothing ==
    [][(RequestHandled /\ ResolutionFails(reply'.request))
          => /\ reply'.status \in 400..499
             /\ reply'.ops = <<>>
             /\ assets' = assets
             /\ app_settings' = app_settings]_vars

\* C22 witness: a POST to the asset collection without any tenant source
\* was answered 403 while the store held an asset and the tenant's settings.
C22_Witness ==
    /\ reply.handled
    /\ reply.handler = "handleAssetsCollection"
    /\ reply.method = "POST"
    /\ reply.request.pc = Nil /\ reply.request.token = <<>>
    /\ ResolutionFails(reply.request)
    /\ reply.status = 403
    /\ reply.ops = <<>>
    /\ assets.rows # {}
    /\ app_settings # {}

\* The step is a health check whose database ping succeeded
HealthChecked ==
    /\ reply' # reply
    /\ reply'.handled
    /\ reply'.handler = "CheckHealth"
    /\ ~reply'.pingFails

\* C23: a health check with a reachable database, no storage initialisation
\* error and the override off answers OK exactly when the bucket and the
\* service-account credential of the instance's configuration are both
\* non-empty, and otherwise an error naming what is missing: both, the
\* bucket, or the service account.  An OK answer of any health check implies
\* IsFullyConfigured.
C23_HealthFromConfig ==
    [][(reply' # reply /\ reply'.handled /\ reply'.handler = "CheckHealth")
          => \E res \in {reply'.result} :
             \E bucket \in {last.config.Bucket # ""} :
             \E account \in {last.config.ServiceAccountJSON # ""} :
                /\ res.Status = "OK" => IsFullyConfigured(last.config, env)
                /\ (/\ ~reply'.pingFails
                    /\ last.storageInitErr = Nil
                    /\ ~localStorageOverrideEnabled(env))
                      => /\ res.Status = "OK" <=> (bucket /\ account)
                         /\ res.Status \in {"OK", "ERROR"}
                         /\ (bucket /\ account) => res.Message.text = "ok"
                         /\ (~bucket /\ ~account)
                               => res.Message.text =
                                    "storage bucket and service account not configured"
                         /\ (~bucket /\ account)
                               => res.Message.text = "storage bucket not configured"
                         /\ (bucket /\ ~account)
                               => res.Message.text =
                                    "storage service account not configured"]_vars

\* C23 witness: the instance has a bucket and no credential, the override
\* is off, and the health check answered that the service account is missing.
C23_Witness ==
    /\ Serving
    /\ reply.handled /\ reply.handler = "CheckHealth" /\ ~reply.pingFails
    /\ ~localStorageOverrideEnabled(env)
    /\ last.storageInitErr = Nil
    /\ last.config.Bucket = "b1" /\ last.config.ServiceAccountJSON = ""
    /\ reply.result = HealthResult("ERROR", "storage service account not configured", Nil)

\* The App NewApp builds from configuration cfg in the current environment
AppFor(cfg) ==
    [config |-> cfg, storage |-> InitStorage(cfg, env).storage,
     storageInitErr |-> InitStorage(cfg, env).storageInitErr]

\* The configurations that differ from cfg at most in the values of the
\* secrets and agree with it on which secrets are non-empty
SecretVariants(cfg) ==
    {[cfg EXCEPT !.APIKey = IF @ = "" THEN "" ELSE k,
                 !.ServiceAccountJSON = IF @ = "" THEN "" ELSE g] :
        k \in {"s1", "s2"}, g \in CredentialInputs}

\* C24 as claimed: the answer of a health check and the payload of the
\* settings endpoint are the same for every configuration that differs
\* from the instance's only in the values of its non-empty secrets.
C24_Original ==
    [][(reply' # reply /\ reply'.handled /\ Serving)
          => \A cfg \in SecretVariants(last.config) :
                /\ reply'.handler = "CheckHealth"
                      => reply'.result = CheckHealth(AppFor(cfg), env, reply'.pingFails)
                /\ reply'.handler = "handleAppSettings"
                      => reply'.body =
                            handleAppSettings(AppFor(cfg), env, assets, reply'.method,
                                              reply'.request).body]_vars

\* The effective configuration of the instantiation is complete and its
\* storage client cannot be built
StorageInitFails ==
    /\ last.running
    /\ ~parseConfig(last.effective).err
    /\ IsFullyConfigured(parseConfig(last.effective).cfg, env)
    /\ newStorageClient(parseConfig(last.effective).cfg, env).err # Nil

\* What NewApp leaves when the storage client cannot be built: an instance
\* with the parsed configuration, the row written when reconciliation
\* decided so, no storage, the error recorded.
StorageInitFailureKept ==
    StorageInitFails
        => /\ ~last.err
           /\ last.config = parseConfig(last.effective).cfg
           /\ last.wrote <=> (last.org # 0 /\ last.branch \in {"first", "update"})
           /\ last.wrote
                 => /\ RowsOf(app_settings, last.org) # {}
                    /\ After.JSONData = canonicalizeJSON(last.effective.JSONData)
                    /\ After.SecureJSONData = last.effective.DecryptedSecureJSONData
           /\ ~last.wrote => app_settings = last.before
           /\ ~storageConfigured(App, env)
           /\ last.storageInitErr # Nil

\* C29 as claimed: after an instantiation whose storage client could not
\* be built, every health check answers an error that mentions the storage
\* initialisation failure.
C29_Original ==
    [][(reply' # reply /\ reply'.handled /\ reply'.handler = "CheckHealth"
           /\ StorageInitFails)
          => /\ reply'.result.Status = "ERROR"
             /\ reply'.result.Message.text = "storage initialization failed: "]_vars

\* C29: when the effective configuration is complete and the storage client
\* cannot be built, NewApp succeeds, has written the row reconciliation
\* decided to write, storageConfigured() is false, and every later health
\* check answers an error: the storage initialisation failure with its
\* cause when the database ping succeeds, the ping failure otherwise.
C29_StorageInitFailureVisible ==
    /\ []StorageInitFailureKept
    /\ [][(reply' # reply /\ reply'.handled /\ reply'.handler = "CheckHealth"
              /\ StorageInitFails)
             => /\ reply'.result.Status = "ERROR"
                /\ ~reply'.pingFails
                      => reply'.result.Message =
                            [text |-> "storage initialization failed: ",
                             err |-> last.storageInitErr]
                /\ reply'.pingFails
                      => reply'.result.Message.text = "db ping failed: "]_vars

\* C29 witness: tenant 1 was instantiated for the first time with a bucket
\* and a credential that lacks its members; the row was written, the
\* instance has no storage, and the health check reported the failure.
C29_Witness ==
    /\ StorageInitFails
    /\ last.org = 1 /\ last.branch = "first" /\ last.wrote
    /\ RowsOf(app_settings, 1) # {} /\ last.before = {}
    /\ ~storageConfigured(App, env)
    /\ last.storageInitErr = [msg |-> "service account missing client_email", cause |-> Nil]
    /\ reply.handled /\ reply.handler = "CheckHealth"
    /\ reply.result.Message =
          [text |-> "storage initialization failed: ", err |-> last.storageInitErr]

\* The blob is empty or holds white space only
Blank(b) == \A i \in 1..Len(b) : b[i] = WS

\* C25: jsonEqual(a, b) is true exactly when both blobs are blank, or both
\* parse and denote the same object whatever the order of the members and
\* the white space, or neither parses and their trimmed bytes are equal.
\* Reordered objects are equal, an empty and a white-space blob are equal,
\* a malformed blob equals itself and differs from every other text.
C25_JsonEqualSemantics ==
    (reply.handled /\ reply.fn = "jsonEqual")
        => \A a \in {reply.a}, b \in {reply.b} :
              /\ reply.result \in BOOLEAN
              /\ reply.result <=>
                    \/ Blank(a) /\ Blank(b)
                    \/ JSONValid(a) /\ JSONValid(b) /\ JSONValue(a) = JSONValue(b)
                    \/ ~JSONValid(a) /\ ~JSONValid(b) /\ TrimSpace(a) = TrimSpace(b)
              /\ (a = DocA /\ b = DocAReordered) => reply.result
              /\ (a = <<>> /\ b = <<WS>>) => reply.result
              /\ (a = DocBad /\ b = DocBad) => reply.result
              /\ (a = DocBad /\ TrimSpace(b) # DocBad) => ~reply.result

\* C25 witness: the object with its members reordered and padded was
\* compared with the plain one and found equal.
C25_Witness ==
    /\ reply.handled /\ reply.fn = "jsonEqual"
    /\ reply.a = DocAReordered /\ reply.b = DocA
    /\ reply.a # reply.b
    /\ reply.result

\* C26 as claimed: mapsEqual(a, b) is true exactly when a and b have the
\* same keys and the same value for every key.
C26_Original ==
    (reply.handled /\ reply.fn = "mapsEqual")
        => (reply.result <=>
               /\ DOMAIN reply.a = DOMAIN reply.b
               /\ \A k \in DOMAIN reply.a : reply.a[k] = reply.b[k])

\* The record a save with the given existing record keeps as the baseline:
\* the existing baseline, else the existing live record, else the candidate
SavedBaseline(candidate, existing, updated) ==
    IF existing # Nil /\ HasBaseline(existing)
    THEN [json |-> existing.ProvisionedJSONData,
          secure |-> existing.ProvisionedSecureJSONData,
          updated |-> existing.ProvisionedUpdatedAt]
    ELSE IF existing # Nil
    THEN [json |-> existing.JSONData, secure |-> existing.SecureJSONData,
          updated |-> existing.UpdatedAt]
    ELSE [json |-> candidate.JSONData, secure |-> candidate.DecryptedSecureJSONData,
          updated |-> updated]

NoConfiguration(settings) ==
    /\ SelectSeq(settings.JSONData, NotWS) \in {<<>>, <<LB, RB>>}
    /\ Len(settings.JSONData) \in {0, 2}
    /\ MapLen(settings.DecryptedSecureJSONData) = 0

\* C28 as claimed: an instantiation of a tenant without a row whose payload
\* is entirely empty creates no row and is configured with the defaults;
\* one whose payload is not creates the row when none exists; a row that
\* exists is never removed.
C28_Original ==
    Instantiated
        => /\ (RowsOf(last.before, last.org) = {} /\ NoConfiguration(last.settings))
                 => /\ RowsOf(app_settings, last.org) = {}
                    /\ ~last.err
                    /\ last.config = parseConfig(Settings(<<>>, EmptyMap, 0)).cfg
           /\ RowsOf(last.before, last.org) # {} => RowsOf(app_settings, last.org) # {}

\* The write-back condition as stated, on the payload and the loaded record
WriteBackDue(settings, p) ==
    LET carries == Len(settings.JSONData) > 0 \/ MapLen(settings.DecryptedSecureJSONData) > 0
    IN  IF p = Nil THEN carries
        ELSE /\ carries
             /\ ~IsReplay(settings, p)
             /\ settings.Updated # 0
             /\ \/ p.UpdatedAt = 0
                \/ /\ settings.Updated > p.UpdatedAt
                   /\ ~(/\ jsonEqual(settings.JSONData, p.JSONData)
                         /\ mapsEqual(settings.DecryptedSecureJSONData, p.SecureJSONData))

ConfigAccepted(data) ==
    \/ Len(data) = 0
    \/ /\ JSONValid(data)
       /\ \A k \in DOMAIN JSONValue(data) :
             /\ k \in {"apiUrl", "bucketName", "objectPrefix"}
                   => "str" \in DOMAIN JSONValue(data)[k]
             /\ k = "maxUploadSizeMb" => "num" \in DOMAIN JSONValue(data)[k]

EmptyPayloads == {Settings(<<>>, EmptyMap, 0), Settings(<<LB, RB>>, EmptyMap, 0)}

C34_TenantZeroBypass ==
    (last.running /\ last.org = 0)
        => /\ last.branch = "bypass"
           /\ ~last.wrote
           /\ app_settings = last.before
           /\ RowsOf(app_settings, 0) = {}
           /\ last.effective = last.settings
           /\ last.err <=> parseConfig(last.settings).err
           /\ ~last.err => last.config = parseConfig(last.settings).cfg

\* C34 witness: with a row of tenant 1 in the table, an instantiation
\* without tenant got a payload with other JSON and secrets; it is
\* configured from the payload and the table is unchanged.
C34_Witness ==
    /\ last.running /\ last.org = 0 /\ ~last.err
    /\ RowsOf(app_settings, 1) # {}
    /\ last.settings = Settings(DocB, ("apiKey" :> "s1") @@ ("gcsServiceAccount" :> "g1"), 2)
    /\ Persisted(app_settings, 1).JSONData = DocA
    /\ last.config.Bucket = "b2"
    /\ app_settings = last.before

\* C31 as claimed: when the load of the tenant's existing row fails, the
\* instantiation does not write the row; the tenant's row (live JSON,
\* secrets, updated_at and provisioned baseline) is after the instantiation
\* what it was before.
C31_Original ==
    (LoadFailed /\ RowsOf(last.before, last.org) # {})
        => /\ ~last.wrote
           /\ RowsOf(app_settings, last.org) = RowsOf(last.before, last.org)

C36_Original ==
    (reply.handled /\ reply.fn = "canonicalizeJSON")
        => /\ reply.again = reply.result
           /\ reply.equal <=> (reply.result[1] = reply.result[2])
           /\ jsonEqual(reply.result[1], reply.a)

\* C37 as claimed: every asset_files row names an object the storage holds,
\* and an upload request that ends in an error leaves asset_files as it was
\* and, unless the compensating Delete fails, the storage as it was.
C37_Original ==
    /\ [](\A f \in assets.files : f.object_name \in assets.objects)
    /\ [][(/\ reply' # reply
           /\ reply'.handled
           /\ reply'.handler = "handleAssetFileUpload"
           /\ reply'.status # 201)
             => /\ assets'.files = assets.files
                /\ "Delete" \notin reply'.fault => assets'.objects = assets.objects]_vars

====
